---- MODULE Spec2Model ----
(***************************************************************************)
(* Model of the tabular core of research/utils: the correlation            *)
(* categorizer (analyze_feature_correlations) and the fit/transform        *)
(* preprocessing steps (DropColumnsHighNA, IdentifyAndDropLowVarNum,       *)
(* MissingValueImputer, the four dtype converters, ColumnDropper).         *)
(*                                                                         *)
(* A table is a record [nrows, cols]; cols is the ordered sequence of      *)
(* columns [name, dtype, vals].  A cell is a record [t, n, d, s]: a        *)
(* number n/d (t = "num"), a string s (t = "str"), a boolean n \in {0,1}   *)
(* (t = "bool") or the missing marker (t = "na").                          *)
(***************************************************************************)
EXTENDS Integers, Sequences, FiniteSets, TLC

\* ------------------------------------------------------------- bounds
\* largest number of columns of a table handed to analyze_feature_correlations
MaxCols == 3
\* largest number of bands of a caller-supplied threshold table
MaxBands == 2
\* largest number of fit/transform calls made on one pipeline-step instance
MaxCalls == 2

\* ------------------------------------------------------------- cells
Num(k) == [t |-> "num", n |-> k, d |-> 1, s |-> ""]
Str(x) == [t |-> "str", n |-> 0, d |-> 1, s |-> x]
Bool(b) == [t |-> "bool", n |-> (IF b THEN 1 ELSE 0), d |-> 1, s |-> ""]
NA == [t |-> "na", n |-> 0, d |-> 1, s |-> ""]
\* Python's None as a learned fill value (the imputer's "nothing learned")
NoneV == [t |-> "none", n |-> 0, d |-> 1, s |-> ""]

RECURSIVE Gcd(_, _)
Gcd(a, b) == IF b = 0 THEN a ELSE Gcd(b, a % b)

AbsInt(k) == IF k < 0 THEN -k ELSE k

\* the number n/d in lowest terms, d > 0
Rat(n, d) ==
  LET g == Gcd(AbsInt(n), d)
  IN  [t |-> "num", n |-> n \div g, d |-> d \div g, s |-> ""]

IsNull(v) == v.t = "na"

Range(f) == {f[k] : k \in DOMAIN f}

RECURSIVE SumSet(_, _)
\* the sum of f[k] over the finite set S
SumSet(f, S) ==
  IF S = {} THEN 0
  ELSE LET k == CHOOSE x \in S : TRUE IN f[k] + SumSet(f, S \ {k})

\* ------------------------------------------------------------- tables
Col(name, dtype, vals) == [name |-> name, dtype |-> dtype, vals |-> vals]
Table(nrows, cols) == [nrows |-> nrows, cols |-> cols]
EmptyTable == Table(0, <<>>)

ColNames(df) == [k \in 1..Len(df.cols) |-> df.cols[k].name]
ColNameSet(df) == {df.cols[k].name : k \in 1..Len(df.cols)}
HasCol(df, name) == name \in ColNameSet(df)
GetCol(df, name) == df.cols[CHOOSE k \in 1..Len(df.cols) : df.cols[k].name = name]

\* every sequence of at most n elements of S without repetition
RECURSIVE Arrangements(_, _)
Arrangements(S, n) ==
  IF n = 0 THEN {<<>>}
  ELSE LET shorter == Arrangements(S, n - 1)
       IN  shorter \cup
           UNION {{Append(q, x) : x \in S \ Range(q)} :
                    q \in {p \in shorter : Len(p) = n - 1}}

DistinctNames(cols) ==
  \A i, j \in 1..Len(cols) : cols[i].name = cols[j].name => i = j

SameLength(cols) ==
  \A i, j \in 1..Len(cols) : Len(cols[i].vals) = Len(cols[j].vals)

\* the tables of at most n columns drawn from the column pool S: column
\* names are unique and all columns have the table's row count
TablesOver(S, n) ==
  {Table(IF cols = <<>> THEN 0 ELSE Len(cols[1].vals), cols) :
     cols \in {q \in Arrangements(S, n) : DistinctNames(q) /\ SameLength(q)}}

\* ------------------------------------------------------------- objects
(***************************************************************************)
(* A call works on a heap of table objects: a sequence of tables, the      *)
(* reference 1 being the caller's table.  X.copy() allocates a new object; *)
(* X[col] = ... writes into the object it is applied to; X.drop(columns=)  *)
(* returns a new object.                                                   *)
(***************************************************************************)
\* variant: no copy is made, the same object is handed on
DfCopyAlias(h, r) == [h |-> h, r |-> r]

\* X.copy(): a new object holding the same columns and values
DfCopy(h, r) == [h |-> Append(h, h[r]), r |-> Len(h) + 1]

\* X[name] = col on the object r: replaces the column of that name in place
DfSetCol(h, r, name, col) ==
  [h EXCEPT ![r].cols =
     [k \in 1..Len(@) |-> IF @[k].name = name THEN col ELSE @[k]]]

\* variant: the columns kept, in reverse order
DropColsReversed(df, names) ==
  LET kept == SelectSeq(df.cols, LAMBDA c : c.name \notin names)
  IN  Table(df.nrows, [k \in 1..Len(kept) |-> kept[Len(kept) + 1 - k]])

DropCols(df, names) ==
  Table(df.nrows, SelectSeq(df.cols, LAMBDA c : c.name \notin names))

\* X.drop(columns=names): a new object without these columns
DfDrop(h, r, names) ==
  [h |-> Append(h, DropCols(h[r], names)), r |-> Len(h) + 1]

\* what a call hands back: the heap after it, the returned reference (0 when
\* nothing is returned), the exception raised ("none" when it returns), the
\* instance after the call and the report (analyze_feature_correlations)
Outcome(h, ref, exc, inst, report) ==
  [h |-> h, ref |-> ref, exc |-> exc, self |-> inst, report |-> report]

\* ------------------------------------------------------------- correlation
(***************************************************************************)
(* df.corr(numeric_only=True): the Pearson coefficient of every pair of    *)
(* numeric columns over the rows where both are present.  With             *)
(* Sxy = n*Sum(xy) - Sum(x)*Sum(y) the coefficient is Sxy / sqrt(Sxx*Syy); *)
(* it is kept exactly, as the pair [s |-> Sxy, p |-> Sxx*Syy], and is NaN  *)
(* (p = 0) when a variance is zero or no row has both values.              *)
(***************************************************************************)
\* thresholds are counted in millionths: 1.000001 is 1000001
Micro == 1000000

NumericOnlyDtypes == {"int64", "float64", "bool"}

NumericOnly(df) ==
  SelectSeq(df.cols, LAMBDA c : c.dtype \in NumericOnlyDtypes)

Pearson(x, y) ==
  LET rows == {k \in 1..Len(x.vals) : ~IsNull(x.vals[k]) /\ ~IsNull(y.vals[k])}
      n    == Cardinality(rows)
      sx   == SumSet([k \in rows |-> x.vals[k].n], rows)
      sy   == SumSet([k \in rows |-> y.vals[k].n], rows)
      sxx  == SumSet([k \in rows |-> x.vals[k].n * x.vals[k].n], rows)
      syy  == SumSet([k \in rows |-> y.vals[k].n * y.vals[k].n], rows)
      sxy  == SumSet([k \in rows |-> x.vals[k].n * y.vals[k].n], rows)
      Sxx  == n * sxx - sx * sx
      Syy  == n * syy - sy * sy
      Sxy  == n * sxy - sx * sy
  IN  IF Sxx * Syy = 0 THEN [s |-> 0, p |-> 0]
      ELSE [s |-> Sxy, p |-> Sxx * Syy]

IsNaN(r) == r.p = 0

\* abs(correlation_value)
AbsCorr(r) == [s |-> AbsInt(r.s), p |-> r.p]

RECURSIVE FracLeq(_, _, _, _)
\* a/b <= c/d for a, c >= 0 and b, d > 0, without forming a*d and c*b
FracLeq(a, b, c, d) ==
  LET qa == a \div b
      qc == c \div d
      ra == a % b
      rc == c % d
  IN  IF qa # qc THEN qa < qc
      ELSE IF ra = 0 THEN TRUE
      ELSE IF rc = 0 THEN FALSE
      ELSE FracLeq(d, rc, b, ra)

\* t/Micro <= r, exactly; false when r is NaN.  For r and t of one sign the
\* squares are compared: r^2 = s^2/p against (t/Micro)^2.
CorrGeq(r, t) ==
  LET g  == Gcd(r.s * r.s, r.p)
      a  == (r.s * r.s) \div g
      b  == r.p \div g
  IN  IF IsNaN(r) THEN FALSE
      ELSE IF t <= 0 /\ r.s >= 0 THEN TRUE
      ELSE IF t >= 0 /\ r.s <= 0 THEN r.s = 0 /\ t = 0
      ELSE IF t > 0 THEN FracLeq(t * b, Micro, a * Micro, t)
      ELSE FracLeq(a * Micro, -t, (-t) * b, Micro)

\* r < t/Micro, exactly; false when r is NaN
CorrLt(r, t) == ~IsNaN(r) /\ ~CorrGeq(r, t)

\* ------------------------------------------------------------- thresholds
Band(level, lo, hi) == [level |-> level, lo |-> lo, hi |-> hi]

\* variant: the two perfect bands come first in the default table
DefaultThresholdsPerfectFirst ==
  << Band("perfect_positive", 999999, 1000001),
     Band("perfect_negative", -1000001, -999999),
     Band("very_low_positive", 100000, 300000),
     Band("very_low_negative", -300000, -100000),
     Band("low_positive", 300000, 500000),
     Band("low_negative", -500000, -300000),
     Band("medium_positive", 500000, 700000),
     Band("medium_negative", -700000, -500000),
     Band("high_positive", 700000, 1000001),
     Band("high_negative", -1000001, -700000) >>

DefaultThresholds ==
  << Band("very_low_positive", 100000, 300000),
     Band("very_low_negative", -300000, -100000),
     Band("low_positive", 300000, 500000),
     Band("low_negative", -500000, -300000),
     Band("medium_positive", 500000, 700000),
     Band("medium_negative", -700000, -500000),
     Band("high_positive", 700000, 1000001),
     Band("high_negative", -1000001, -700000),
     Band("perfect_positive", 999999, 1000001),
     Band("perfect_negative", -1000001, -999999) >>

\* the thresholds argument: left out by the caller ("unset"), None, or a dict
\* (kind "dict" with its bands)
Unset == [kind |-> "unset", bands |-> <<>>]
NoneArg == [kind |-> "none", bands |-> <<>>]

\* the parameter's default value, thresholds = {}
ParamDefault == <<>>

\* the table the scan iterates: the default table only when the argument is None
EffectiveThresholds(arg) ==
  LET thresholds == IF arg.kind = "unset" THEN ParamDefault ELSE arg.bands
  IN  IF arg.kind = "none" THEN DefaultThresholds ELSE thresholds

\* variant: both ends of the interval must be non-positive
IsDirectionalAnd(band) == band.lo < 0 /\ band.hi <= 0

\* is_directional_range
IsDirectional(band) == band.lo < 0 \/ band.hi <= 0

\* the interval test of one band on one correlation value
BandMatches(band, r) ==
  IF IsDirectional(band)
  THEN CorrGeq(r, band.lo) /\ CorrLt(r, band.hi)
  ELSE CorrGeq(AbsCorr(r), band.lo) /\ CorrLt(AbsCorr(r), band.hi)

RECURSIVE InnerLoopNoBreak(_, _, _)
\* variant: the loop without the break, every matching band is reported
InnerLoopNoBreak(thresholds, k, r) ==
  IF k > Len(thresholds) THEN <<>>
  ELSE IF BandMatches(thresholds[k], r)
       THEN <<k>> \o InnerLoopNoBreak(thresholds, k + 1, r)
       ELSE InnerLoopNoBreak(thresholds, k + 1, r)

RECURSIVE InnerLoop(_, _, _)
\* for level, (min_corr, max_corr) in thresholds.items(), from band k on: the
\* bands the pair is appended to; the loop breaks at the first append
InnerLoop(thresholds, k, r) ==
  IF k > Len(thresholds) THEN <<>>
  ELSE IF BandMatches(thresholds[k], r)
       THEN <<k>>
       ELSE InnerLoop(thresholds, k + 1, r)

RECURSIVE ScanFrom(_, _, _)
ScanFrom(i, j, n) ==
  IF i > n THEN <<>>
  ELSE IF j >= i THEN ScanFrom(i + 1, 1, n)
  ELSE <<(<<i, j>>)>> \o ScanFrom(i, j + 1, n)

\* variant: a scan that leaves out the pairs of adjacent columns
ScanPairsSkipNeighbour(n) ==
  SelectSeq(ScanFrom(1, 1, n), LAMBDA ij : ij[2] < ij[1] - 1)

\* variant: the pair is taken from the upper triangle, earlier column first
ScanPairsUpper(n) ==
  [k \in 1..Len(ScanFrom(1, 1, n)) |->
     <<ScanFrom(1, 1, n)[k][2], ScanFrom(1, 1, n)[k][1]>>]

\* for i in range(n_cols): for j in range(i): the index pairs in loop order
ScanPairs(n) == ScanFrom(1, 1, n)

\* (col1, col2, correlation_value)
Triple(col1, col2, r) == [a |-> col1, b |-> col2, r |-> r]

\* variant: a report that starts without any key
EmptyReportMatchedOnly(thresholds) == <<>>

\* {level: [] for level in thresholds.keys()}
EmptyReport(thresholds) ==
  [k \in 1..Len(thresholds) |-> [level |-> thresholds[k].level, pairs |-> <<>>]]

RECURSIVE Categorize(_, _, _, _)
\* the scan of the lower triangle: report is categorized_correlations so far,
\* pairs the index pairs still to visit
Categorize(report, pairs, columns, thresholds) ==
  IF pairs = <<>> THEN report
  ELSE LET i     == Head(pairs)[1]
           j     == Head(pairs)[2]
           r     == Pearson(columns[i], columns[j])
           taken == Range(InnerLoop(thresholds, 1, r))
           entry == Triple(columns[i].name, columns[j].name, r)
       IN  Categorize(
             [k \in 1..Len(report) |->
                IF k \in taken
                THEN [report[k] EXCEPT !.pairs = Append(@, entry)]
                ELSE report[k]],
             Tail(pairs), columns, thresholds)

NoInstance == [kind |-> "none", cfg |-> <<>>, learned |-> <<>>]

\* analyze_feature_correlations(df, thresholds) on the caller's table h[1]
AnalyzeFeatureCorrelations(h, arg) ==
  LET c          == DfCopy(h, 1)
      columns    == NumericOnly(c.h[c.r])
      thresholds == EffectiveThresholds(arg)
      report     == Categorize(EmptyReport(thresholds), ScanPairs(Len(columns)),
                               columns, thresholds)
  IN  Outcome(c.h, 0, "none", NoInstance, report)

\* the report of a table value
ReportOf(df, arg) == AnalyzeFeatureCorrelations(<<df>>, arg).report

\* ------------------------------------------------------------- pipeline steps
(***************************************************************************)
(* An instance is a record [kind, cfg, learned]: cfg holds the constructor *)
(* arguments, learned the attributes fit assigns.  Every method takes the  *)
(* instance and the heap whose object 1 is the caller's table.             *)
(***************************************************************************)
Instance(kind, cfg, learned) == [kind |-> kind, cfg |-> cfg, learned |-> learned]

\* a constructor or method that raises: nothing is returned
Raise(h, exc, inst) == Outcome(h, 0, exc, inst, <<>>)

\* a constructor or a fit that returns the instance
Done(h, inst) == Outcome(h, 0, "none", inst, <<>>)

\* a transform that returns the table object ref
Give(h, ref, inst) == Outcome(h, ref, "none", inst, <<>>)

\* [col for col in cols if col in X.columns]
PresentIn(cols, df) == SelectSeq(cols, LAMBDA col : HasCol(df, col))

\* [col for col in cols if col not in X.columns]
AbsentFrom(cols, df) == SelectSeq(cols, LAMBDA col : ~HasCol(df, col))

\* X.empty: no rows or no columns
IsEmpty(df) == df.nrows = 0 \/ df.cols = <<>>

PresentRows(col) == {k \in 1..Len(col.vals) : ~IsNull(col.vals[k])}

\* X[col].isnull().sum()
MissingCount(col) == Len(col.vals) - Cardinality(PresentRows(col))

\* X[col].isnull().any()
AnyNull(col) == MissingCount(col) > 0

\* .index.tolist() / .columns.tolist() of a selection of columns
NamesOf(cols) == [k \in 1..Len(cols) |-> cols[k].name]

\* select_dtypes(include=np.number)
IsNumber(col) == col.dtype \in {"int64", "float64"}

\* variant: the boundaries 0 and 100 are rejected
DropColumnsHighNA_init_exclusive(threshold) ==
  IF ~(0 < threshold /\ threshold < 100)
  THEN Raise(<<>>, "ValueError", NoInstance)
  ELSE Done(<<>>, Instance("DropColumnsHighNA",
                           [threshold |-> threshold],
                           [columns_to_drop_ |-> <<>>]))

\* ---- DropColumnsHighNA
DropColumnsHighNA_init(threshold) ==
  IF ~(0 <= threshold /\ threshold <= 100)
  THEN Raise(<<>>, "ValueError", NoInstance)
  ELSE Done(<<>>, Instance("DropColumnsHighNA",
                           [threshold |-> threshold],
                           [columns_to_drop_ |-> <<>>]))

\* variant: only columns strictly above the threshold
HighMissingStrict(col, threshold) ==
  MissingCount(col) * 100 > threshold * Len(col.vals)

\* missing_percentage >= self.threshold, with
\* missing_percentage = isnull().sum() * 100 / len(X)
HighMissing(col, threshold) ==
  MissingCount(col) * 100 >= threshold * Len(col.vals)

\* variant: a fit that extends the list it finds instead of replacing it
DropColumnsHighNA_fit_extend(inst, h) ==
  LET X     == h[1]
      found == NamesOf(SelectSeq(X.cols,
                 LAMBDA col : HighMissing(col, inst.cfg.threshold)))
  IN  Done(h, [inst EXCEPT !.learned.columns_to_drop_ =
                 @ \o SelectSeq(found, LAMBDA col : col \notin Range(@))])

DropColumnsHighNA_fit(inst, h) ==
  LET X == h[1]
  IN  IF IsEmpty(X)
      THEN Done(h, [inst EXCEPT !.learned.columns_to_drop_ = <<>>])
      ELSE Done(h, [inst EXCEPT !.learned.columns_to_drop_ =
                      NamesOf(SelectSeq(X.cols, LAMBDA col :
                                HighMissing(col, inst.cfg.threshold)))])

\* variant: a transform that insists on every learned column being present
DropColumnsHighNA_transform_strict(inst, h) ==
  LET c == DfCopy(h, 1)
      d == DfDrop(c.h, c.r, Range(inst.learned.columns_to_drop_))
  IN  IF AbsentFrom(inst.learned.columns_to_drop_, h[1]) # <<>>
      THEN Raise(c.h, "KeyError", inst)
      ELSE Give(d.h, d.r, inst)

DropColumnsHighNA_transform(inst, h) ==
  IF "columns_to_drop_" \notin DOMAIN inst.learned
  THEN Raise(h, "RuntimeError", inst)
  ELSE LET c   == DfCopy(h, 1)
           now == PresentIn(inst.learned.columns_to_drop_, c.h[c.r])
           d   == DfDrop(c.h, c.r, Range(now))
       IN  IF now # <<>> THEN Give(d.h, d.r, inst) ELSE Give(c.h, c.r, inst)

\* ---- IdentifyAndDropLowVarNum
\* the threshold is the fraction qn/qd
IdentifyAndDropLowVarNum_init(qn, qd) ==
  IF qn < 0
  THEN Raise(<<>>, "ValueError", NoInstance)
  ELSE Done(<<>>, Instance("IdentifyAndDropLowVarNum",
                           [qn |-> qn, qd |-> qd],
                           [numeric_cols_considered_ |-> <<>>,
                            columns_to_drop_ |-> <<>>,
                            _input_features_during_fit |-> <<>>]))

\* the smallest and the largest present value of a numeric column
MinOf(col) ==
  CHOOSE m \in {col.vals[k].n : k \in PresentRows(col)} :
    \A k \in PresentRows(col) : m <= col.vals[k].n

MaxOf(col) ==
  CHOOSE m \in {col.vals[k].n : k \in PresentRows(col)} :
    \A k \in PresentRows(col) : m >= col.vals[k].n

\* var(ddof=0) over the present values is N / n^2 with
\* N = n * Sum(x^2) - Sum(x)^2; shifting x by the minimum leaves N unchanged
VarNumerator(col) ==
  LET rows == PresentRows(col)
      n    == Cardinality(rows)
      s1   == SumSet([k \in rows |-> col.vals[k].n], rows)
      s2   == SumSet([k \in rows |-> col.vals[k].n * col.vals[k].n], rows)
  IN  n * s2 - s1 * s1

\* variant: the variance of no values counts as 0
RawVarianceZeroOrUndefined(col) == VarNumerator(col) = 0

\* original_variances == 0.0: the variance of no values is NaN
RawVarianceIsZero(col) == PresentRows(col) # {} /\ VarNumerator(col) = 0

\* MinMaxScaler maps x to (x - min) / (max - min), the divisor 1 when
\* max = min; the variance of the scaled values is then
\* VarNumerator / (n^2 * divisor^2)
ScaledVarDenominator(col) ==
  LET n       == Cardinality(PresentRows(col))
      range   == MaxOf(col) - MinOf(col)
      divisor == IF range = 0 THEN 1 ELSE range
  IN  n * n * divisor * divisor

\* scaled_variances == 0.0
IsConstant(col) == VarNumerator(col) = 0

\* variant: the upper bound of the quasi-constant band is inclusive
QuasiConstantInclusive(col, qn, qd) ==
  /\ VarNumerator(col) > 0
  /\ VarNumerator(col) * qd <= qn * ScaledVarDenominator(col)

\* (scaled_variances > 0.0) & (scaled_variances < self.quasi_constant_threshold)
IsQuasiConstant(col, qn, qd) ==
  /\ VarNumerator(col) > 0
  /\ VarNumerator(col) * qd < qn * ScaledVarDenominator(col)

\* list(set(cols)): the columns once each, in an order the hash seed picks
ListOfSet(cols) ==
  {q \in Arrangements(Range(cols), Cardinality(Range(cols))) :
     Len(q) = Cardinality(Range(cols))}

\* the outcomes of fit: one for every order list(set(...)) may produce
IdentifyAndDropLowVarNum_fit(inst, h) ==
  LET X        == h[1]
      numeric  == NamesOf(SelectSeq(X.cols, IsNumber))
      reset    == [inst EXCEPT
                     !.learned._input_features_during_fit = ColNames(X),
                     !.learned.columns_to_drop_ = <<>>,
                     !.learned.numeric_cols_considered_ = numeric]
      valid    == SelectSeq(numeric,
                    LAMBDA col : PresentRows(GetCol(X, col)) # {})
      original == SelectSeq(numeric,
                    LAMBDA col : RawVarianceIsZero(GetCol(X, col)))
      zero_var == SelectSeq(valid, LAMBDA col : IsConstant(GetCol(X, col)))
      quasi    == SelectSeq(valid,
                    LAMBDA col : IsQuasiConstant(GetCol(X, col),
                                                 inst.cfg.qn, inst.cfg.qd))
      unscaled == SelectSeq(numeric, LAMBDA col : col \notin Range(valid))
      zero_uns == SelectSeq(unscaled,
                    LAMBDA col : RawVarianceIsZero(GetCol(X, col)))
      extended == zero_var \o quasi
      appended == extended \o
                  SelectSeq(zero_uns, LAMBDA col : col \notin Range(extended))
  IN  IF numeric = <<>> THEN {Done(h, reset)}
      ELSE IF valid = <<>>
      THEN {Done(h, [reset EXCEPT !.learned.columns_to_drop_ = original])}
      ELSE {Done(h, [reset EXCEPT !.learned.columns_to_drop_ = q]) :
              q \in ListOfSet(appended)}

\* variant: transform keeps only the columns it found in the learned list
IdentifyAndDropLowVarNum_transform_prune(inst, h) ==
  LET c   == DfCopy(h, 1)
      now == PresentIn(inst.learned.columns_to_drop_, c.h[c.r])
      d   == DfDrop(c.h, c.r, Range(now))
      new == [inst EXCEPT !.learned.columns_to_drop_ = now]
  IN  IF now # <<>> THEN Give(d.h, d.r, new) ELSE Give(c.h, c.r, new)

IdentifyAndDropLowVarNum_transform(inst, h) ==
  IF "columns_to_drop_" \notin DOMAIN inst.learned
  THEN Raise(h, "RuntimeError", inst)
  ELSE LET c   == DfCopy(h, 1)
           now == PresentIn(inst.learned.columns_to_drop_, c.h[c.r])
           d   == DfDrop(c.h, c.r, Range(now))
       IN  IF now # <<>> THEN Give(d.h, d.r, inst) ELSE Give(c.h, c.r, inst)

\* ---- ColumnDropper
\* the argument is_list says whether columns_to_drop is a list, items are
\* its elements as cells
ColumnDropper_init(is_list, items) ==
  IF ~is_list THEN Raise(<<>>, "TypeError", NoInstance)
  ELSE IF \E k \in 1..Len(items) : items[k].t # "str"
  THEN Raise(<<>>, "TypeError", NoInstance)
  ELSE Done(<<>>, Instance("ColumnDropper",
                           [columns_to_drop |->
                              [k \in 1..Len(items) |-> items[k].s]],
                           [_fitted_columns_to_drop |-> <<>>]))

\* variant: the configured list is stored before it is validated
ColumnDropper_fit_store_first(inst, h) ==
  LET missing_columns == AbsentFrom(inst.cfg.columns_to_drop, h[1])
      stored == [inst EXCEPT !.learned._fitted_columns_to_drop =
                               inst.cfg.columns_to_drop]
  IN  IF missing_columns # <<>> THEN Raise(h, "ValueError", stored)
      ELSE Done(h, stored)

ColumnDropper_fit(inst, h) ==
  LET missing_columns == AbsentFrom(inst.cfg.columns_to_drop, h[1])
  IN  IF missing_columns # <<>> THEN Raise(h, "ValueError", inst)
      ELSE Done(h, [inst EXCEPT !.learned._fitted_columns_to_drop =
                                   inst.cfg.columns_to_drop])

ColumnDropper_transform(inst, h) ==
  IF \/ "_fitted_columns_to_drop" \notin DOMAIN inst.learned
     \/ inst.learned._fitted_columns_to_drop = <<>>
  THEN IF inst.cfg.columns_to_drop = <<>>
       THEN LET c == DfCopy(h, 1) IN Give(c.h, c.r, inst)
       ELSE Raise(h, "RuntimeError", inst)
  ELSE LET c   == DfCopy(h, 1)
           now == PresentIn(inst.learned._fitted_columns_to_drop, c.h[c.r])
           d   == DfDrop(c.h, c.r, Range(now))
       IN  IF now # <<>> THEN Give(d.h, d.r, inst) ELSE Give(c.h, c.r, inst)

\* ---- MissingValueImputer
\* a Python dict as the sequence of its entries [k, v] in insertion order
DictHas(d, key) == \E i \in 1..Len(d) : d[i].k = key

DictGet(d, key) == d[CHOOSE i \in 1..Len(d) : d[i].k = key].v

\* d[key] = value
DictSet(d, key, value) ==
  IF DictHas(d, key)
  THEN [i \in 1..Len(d) |-> IF d[i].k = key THEN [k |-> key, v |-> value]
                                             ELSE d[i]]
  ELSE Append(d, [k |-> key, v |-> value])

DictKeys(d) == {d[i].k : i \in 1..Len(d)}

MissingValueImputer_init(num_strategy, cat_strategy) ==
  IF num_strategy \notin {"mean", "median", "mode"}
  THEN Raise(<<>>, "ValueError", NoInstance)
  ELSE Done(<<>>, Instance("MissingValueImputer",
                           [num_strategy |-> num_strategy,
                            cat_strategy |-> cat_strategy],
                           [num_imputers_ |-> <<>>,
                            cat_imputers_ |-> <<>>,
                            numerical_cols_ |-> <<>>,
                            categorical_cols_ |-> <<>>]))

\* the order Python gives the strings of the model
StrOrder == <<"Missing", "Unknown", "x", "y", "z">>

StrRank(x) == CHOOSE k \in 1..Len(StrOrder) : StrOrder[k] = x

\* a < b or a = b for two present cells of one column
CellLeq(a, b) ==
  IF a.t = "str" /\ b.t = "str" THEN StrRank(a.s) <= StrRank(b.s)
  ELSE a.n * b.d <= b.n * a.d

PresentVals(col) == {col.vals[k] : k \in PresentRows(col)}

CountOf(col, v) == Cardinality({k \in PresentRows(col) : col.vals[k] = v})

\* X_fit[col].mean() of a column of whole numbers; NaN when all are missing
Mean(col) ==
  LET rows == PresentRows(col)
  IN  IF rows = {} THEN NA
      ELSE Rat(SumSet([k \in rows |-> col.vals[k].n], rows), Cardinality(rows))

\* the k-th smallest present value
KthSmallest(col, k) ==
  CHOOSE v \in PresentVals(col) :
    /\ Cardinality({i \in PresentRows(col) :
                      CellLeq(col.vals[i], v) /\ col.vals[i] # v}) < k
    /\ k <= Cardinality({i \in PresentRows(col) : CellLeq(col.vals[i], v)})

\* variant: the midpoint of the smallest and the largest present value
MedianMidrange(col) ==
  IF PresentRows(col) = {} THEN NA ELSE Rat(MinOf(col) + MaxOf(col), 2)

\* X_fit[col].median() of a column of whole numbers
Median(col) ==
  LET n == Cardinality(PresentRows(col))
  IN  IF n = 0 THEN NA
      ELSE IF n % 2 = 1 THEN KthSmallest(col, (n + 1) \div 2)
      ELSE Rat(KthSmallest(col, n \div 2).n
                 + KthSmallest(col, n \div 2 + 1).n, 2)

\* X_fit[col].mode(): the most frequent present values, sorted
Modes(col) ==
  {v \in PresentVals(col) :
     \A w \in PresentVals(col) : CountOf(col, w) <= CountOf(col, v)}

\* variant: the first present value of the column instead of the most
\* frequent one
FirstPresent(col, fallback) ==
  IF PresentRows(col) = {} THEN fallback
  ELSE col.vals[CHOOSE k \in PresentRows(col) :
                  \A j \in PresentRows(col) : k <= j]

\* mode_val.iloc[0] if not mode_val.empty else fallback
ModeFirst(col, fallback) ==
  IF Modes(col) = {} THEN fallback
  ELSE CHOOSE v \in Modes(col) : \A w \in Modes(col) : CellLeq(v, w)

\* the value fit stores for a numeric column
NumImputer(col, num_strategy) ==
  IF ~AnyNull(col) THEN NoneV
  ELSE IF num_strategy = "mean" THEN Mean(col)
  ELSE IF num_strategy = "median" THEN Median(col)
  ELSE ModeFirst(col, Num(0))

\* the value fit stores for a non-numeric column
CatImputer(col, cat_strategy) ==
  IF ~AnyNull(col) THEN NoneV
  ELSE IF cat_strategy = "mode" THEN ModeFirst(col, Str("Unknown"))
  ELSE Str(cat_strategy)

RECURSIVE LearnNum(_, _, _, _)
\* for col in self.numerical_cols_: self.num_imputers_[col] = ...
LearnNum(d, cols, df, num_strategy) ==
  IF cols = <<>> THEN d
  ELSE LearnNum(DictSet(d, Head(cols),
                        NumImputer(GetCol(df, Head(cols)), num_strategy)),
                Tail(cols), df, num_strategy)

RECURSIVE LearnCat(_, _, _, _)
\* for col in self.categorical_cols_: self.cat_imputers_[col] = ...
LearnCat(d, cols, df, cat_strategy) ==
  IF cols = <<>> THEN d
  ELSE LearnCat(DictSet(d, Head(cols),
                        CatImputer(GetCol(df, Head(cols)), cat_strategy)),
                Tail(cols), df, cat_strategy)

MissingValueImputer_fit(inst, h) ==
  LET c     == DfCopy(h, 1)
      X_fit == c.h[c.r]
      num   == NamesOf(SelectSeq(X_fit.cols, IsNumber))
      cat   == NamesOf(SelectSeq(X_fit.cols, LAMBDA col : ~IsNumber(col)))
  IN  Done(c.h, [inst EXCEPT
        !.learned.numerical_cols_ = num,
        !.learned.categorical_cols_ = cat,
        !.learned.num_imputers_ = LearnNum(@, num, X_fit,
                                           inst.cfg.num_strategy),
        !.learned.cat_imputers_ = LearnCat(@, cat, X_fit,
                                           inst.cfg.cat_strategy)])

\* fillna raises on a categorical column when the value is no category of it
FillRaises(col, value) ==
  col.dtype = "category" /\ ~IsNull(value) /\ value \notin PresentVals(col)

\* variant: only the first missing entry is filled (fillna with limit=1)
FillNaFirst(col, value) ==
  LET first == CHOOSE k \in 1..Len(col.vals) :
                 /\ IsNull(col.vals[k])
                 /\ \A j \in 1..(k - 1) : ~IsNull(col.vals[j])
  IN  [col EXCEPT
         !.vals  = [k \in 1..Len(@) |-> IF k = first THEN value ELSE @[k]],
         !.dtype = IF @ = "float64" /\ value.t = "str" THEN "object" ELSE @]

\* X[col].fillna(value): text filled into a float column makes it object
FillNa(col, value) ==
  [col EXCEPT
     !.vals  = [k \in 1..Len(@) |-> IF IsNull(@[k]) THEN value ELSE @[k]],
     !.dtype = IF @ = "float64" /\ value.t = "str" THEN "object" ELSE @]

RECURSIVE Impute(_, _, _, _)
\* for col in cols: fill the copy r in place from the fill map d
Impute(h, r, cols, d) ==
  IF cols = <<>> THEN [h |-> h, exc |-> "none"]
  ELSE LET col == Head(cols)
           X   == h[r]
       IN  IF /\ HasCol(X, col)
              /\ DictHas(d, col)
              /\ DictGet(d, col) # NoneV
              /\ AnyNull(GetCol(X, col))
           THEN IF FillRaises(GetCol(X, col), DictGet(d, col))
                THEN [h |-> h, exc |-> "TypeError"]
                ELSE Impute(DfSetCol(h, r, col,
                                     FillNa(GetCol(X, col), DictGet(d, col))),
                            r, Tail(cols), d)
           ELSE Impute(h, r, Tail(cols), d)

MissingValueImputer_transform(inst, h) ==
  IF /\ inst.learned.num_imputers_ = <<>>
     /\ inst.learned.cat_imputers_ = <<>>
     /\ (inst.learned.numerical_cols_ # <<>>
           \/ inst.learned.categorical_cols_ # <<>>)
     /\ "numerical_cols_" \notin DOMAIN inst.learned
  THEN Raise(h, "RuntimeError", inst)
  ELSE LET c == DfCopy(h, 1)
           n == Impute(c.h, c.r, inst.learned.numerical_cols_,
                       inst.learned.num_imputers_)
           k == Impute(n.h, c.r, inst.learned.categorical_cols_,
                       inst.learned.cat_imputers_)
       IN  IF n.exc # "none" THEN Raise(n.h, n.exc, inst)
           ELSE IF k.exc # "none" THEN Raise(k.h, k.exc, inst)
           ELSE Give(k.h, c.r, inst)

\* ---- dtype converters
AsCategory(col) == [col EXCEPT !.dtype = "category"]

RECURSIVE Convert(_, _, _)
\* for col in cols: X_copy[col] = X_copy[col].astype("category")
Convert(h, r, cols) ==
  IF cols = <<>> THEN [h |-> h, exc |-> "none"]
  ELSE IF ~HasCol(h[r], Head(cols)) THEN [h |-> h, exc |-> "KeyError"]
  ELSE Convert(DfSetCol(h, r, Head(cols),
                        AsCategory(GetCol(h[r], Head(cols)))),
               r, Tail(cols))

\* X_copy = X.copy(), the conversion loop, return X_copy
ConvertCopy(inst, h, cols) ==
  LET c == DfCopy(h, 1)
      k == Convert(c.h, c.r, cols)
  IN  IF k.exc # "none" THEN Raise(k.h, k.exc, inst)
      ELSE Give(k.h, c.r, inst)

SpecificColumnCategorizer_init(columns_to_categorize) ==
  Done(<<>>, Instance("SpecificColumnCategorizer",
                      [columns_to_categorize |-> columns_to_categorize],
                      [fitted_columns_ |-> <<>>]))

SpecificColumnCategorizer_fit(inst, h) ==
  Done(h, [inst EXCEPT !.learned.fitted_columns_ =
                          PresentIn(inst.cfg.columns_to_categorize, h[1])])

SpecificColumnCategorizer_transform(inst, h) ==
  ConvertCopy(inst, h, inst.learned.fitted_columns_)

\* threshold_ratio is the fraction rn/rd
ObjectToCategoryTransformer_init(rn, rd, max_unique) ==
  Done(<<>>, Instance("ObjectToCategoryTransformer",
                      [rn |-> rn, rd |-> rd, max_unique |-> max_unique],
                      [object_cols_to_convert_ |-> <<>>]))

\* X[col].nunique()
NUnique(col) == Cardinality(PresentVals(col))

\* variant: either condition suffices
LowCardinalityEither(col, cfg) ==
  \/ NUnique(col) * cfg.rd < cfg.rn * Len(col.vals)
  \/ NUnique(col) <= cfg.max_unique

\* n_unique / len(X[col]) < threshold_ratio and n_unique <= max_unique
LowCardinality(col, cfg) ==
  /\ NUnique(col) * cfg.rd < cfg.rn * Len(col.vals)
  /\ NUnique(col) <= cfg.max_unique

\* the division by len(X[col]) raises on the first text column of a table
\* without rows, after the list has been reset
ObjectToCategoryTransformer_fit(inst, h) ==
  LET X              == h[1]
      object_columns == NamesOf(SelectSeq(X.cols,
                          LAMBDA col : col.dtype = "object"))
  IN  IF object_columns # <<>> /\ X.nrows = 0
      THEN Raise(h, "ZeroDivisionError",
                 [inst EXCEPT !.learned.object_cols_to_convert_ = <<>>])
      ELSE Done(h, [inst EXCEPT !.learned.object_cols_to_convert_ =
                      SelectSeq(object_columns,
                                LAMBDA col :
                                  LowCardinality(GetCol(X, col), inst.cfg))])

ObjectToCategoryTransformer_transform(inst, h) ==
  ConvertCopy(inst, h, inst.learned.object_cols_to_convert_)

FloatToCategoryTransformer_init ==
  Done(<<>>, Instance("FloatToCategoryTransformer", <<>>,
                      [float_cols_to_convert_ |-> <<>>]))

IsZeroOrOne(v) == v.t = "num" /\ v.d = 1 /\ v.n \in {0, 1}

\* variant: a float column without any present value also qualifies
ZeroOneOrEmpty(col) ==
  /\ col.dtype = "float64"
  /\ \A v \in PresentVals(col) : IsZeroOrOne(v)
  /\ NUnique(col) <= 2

\* all(val in [0.0, 1.0] for val in unique_values) and
\* len(unique_values) > 0, then len(unique_values) <= 2
ZeroOneIndicator(col) ==
  /\ col.dtype = "float64"
  /\ \A v \in PresentVals(col) : IsZeroOrOne(v)
  /\ NUnique(col) > 0
  /\ NUnique(col) <= 2

FloatToCategoryTransformer_fit(inst, h) ==
  Done(h, [inst EXCEPT !.learned.float_cols_to_convert_ =
                          NamesOf(SelectSeq(h[1].cols, ZeroOneIndicator))])

FloatToCategoryTransformer_transform(inst, h) ==
  ConvertCopy(inst, h, inst.learned.float_cols_to_convert_)

BooleanToCategoryTransformer_init ==
  Done(<<>>, Instance("BooleanToCategoryTransformer", <<>>,
                      [bool_cols_to_convert_ |-> <<>>]))

BooleanToCategoryTransformer_fit(inst, h) ==
  Done(h, [inst EXCEPT !.learned.bool_cols_to_convert_ =
                          NamesOf(SelectSeq(h[1].cols,
                            LAMBDA col : col.dtype = "bool"))])

BooleanToCategoryTransformer_transform(inst, h) ==
  ConvertCopy(inst, h, inst.learned.bool_cols_to_convert_)

\* ---- dispatch on the class of the instance
\* the outcomes fit can have
FitOutcomes(inst, h) ==
  CASE inst.kind = "DropColumnsHighNA" -> {DropColumnsHighNA_fit(inst, h)}
    [] inst.kind = "IdentifyAndDropLowVarNum" ->
         IdentifyAndDropLowVarNum_fit(inst, h)
    [] inst.kind = "MissingValueImputer" -> {MissingValueImputer_fit(inst, h)}
    [] inst.kind = "SpecificColumnCategorizer" ->
         {SpecificColumnCategorizer_fit(inst, h)}
    [] inst.kind = "ObjectToCategoryTransformer" ->
         {ObjectToCategoryTransformer_fit(inst, h)}
    [] inst.kind = "FloatToCategoryTransformer" ->
         {FloatToCategoryTransformer_fit(inst, h)}
    [] inst.kind = "BooleanToCategoryTransformer" ->
         {BooleanToCategoryTransformer_fit(inst, h)}
    [] inst.kind = "ColumnDropper" -> {ColumnDropper_fit(inst, h)}

TransformOutcome(inst, h) ==
  CASE inst.kind = "DropColumnsHighNA" -> DropColumnsHighNA_transform(inst, h)
    [] inst.kind = "IdentifyAndDropLowVarNum" ->
         IdentifyAndDropLowVarNum_transform(inst, h)
    [] inst.kind = "MissingValueImputer" ->
         MissingValueImputer_transform(inst, h)
    [] inst.kind = "SpecificColumnCategorizer" ->
         SpecificColumnCategorizer_transform(inst, h)
    [] inst.kind = "ObjectToCategoryTransformer" ->
         ObjectToCategoryTransformer_transform(inst, h)
    [] inst.kind = "FloatToCategoryTransformer" ->
         FloatToCategoryTransformer_transform(inst, h)
    [] inst.kind = "BooleanToCategoryTransformer" ->
         BooleanToCategoryTransformer_transform(inst, h)
    [] inst.kind = "ColumnDropper" -> ColumnDropper_transform(inst, h)

\* ------------------------------------------------------------- inputs
Ints(seq) == [k \in 1..Len(seq) |-> Num(seq[k])]

\* the columns tables for analyze_feature_correlations are made of
CorrColumns ==
  { Col("A_03", "int64", Ints(<<1, 2, 3>>)),
    Col("A_12", "int64", Ints(<<1, 5, 3>>)),
    Col("A_21", "int64", Ints(<<3, 2, 1>>)),
    Col("K", "int64", Ints(<<7, 7, 7>>)),
    Col("P", "int64", Ints(<<0, 1, 3, 4>>)),
    Col("Q", "int64", Ints(<<1, 3, 4, 0>>)),
    Col("U", "float64", <<Num(0), Num(1), NA, Num(4)>>),
    Col("W", "bool", <<Bool(FALSE), Bool(FALSE), Bool(TRUE), Bool(TRUE)>>),
    Col("S", "object", <<Str("x"), Str("y"), Str("x"), Str("x")>>) }

CorrTables == TablesOver(CorrColumns, MaxCols)

\* the intervals caller-supplied bands are made of, in millionths
BandIntervals ==
  { <<-1000001, -100000>>, <<-50000, 300000>>, <<0, 500000>>,
    <<100000, 1000001>> }

LevelNames == <<"low", "medium", "high", "extra">>

RECURSIVE BandTables(_)
\* the caller-supplied threshold tables of exactly n bands
BandTables(n) ==
  IF n = 0 THEN {<<>>}
  ELSE {Append(q, Band(LevelNames[n], iv[1], iv[2])) :
          q \in BandTables(n - 1), iv \in BandIntervals}

ThresholdArgs ==
  {Unset, NoneArg} \cup
  {[kind |-> "dict", bands |-> q] :
     q \in UNION {BandTables(n) : n \in 0..MaxBands}}

\* the tables the pipeline steps are fitted on and applied to come from
Floats(seq) == [k \in 1..Len(seq) |-> IF seq[k] = -1 THEN NA ELSE Num(seq[k])]

Strs(seq) == [k \in 1..Len(seq) |-> IF seq[k] = "" THEN NA ELSE Str(seq[k])]

Bools(seq) == [k \in 1..Len(seq) |-> Bool(seq[k])]

BaseTables ==
  { Table(4, << Col("X", "int64", Ints(<<1, 1, 3, 3>>)),
                Col("Y", "float64", Floats(<<7, -1, 7, -1>>)),
                Col("Z", "object", Strs(<<"x", "y", "x", "x">>)) >>),
    Table(4, << Col("Z", "object", Strs(<<"x", "y", "x", "x">>)),
                Col("Y", "float64", Floats(<<7, -1, 7, -1>>)),
                Col("X", "int64", Ints(<<1, 1, 3, 3>>)) >>),
    Table(4, << Col("A", "float64", Floats(<<1, 2, -1, 4>>)),
                Col("B", "object", Strs(<<"x", "y", "x", "x">>)) >>),
    Table(4, << Col("A", "object", Strs(<<"x", "", "y", "y">>)),
                Col("F", "float64", Floats(<<0, 1, -1, 1>>)),
                Col("G", "bool", Bools(<<TRUE, FALSE, TRUE, TRUE>>)) >>),
    Table(4, << Col("A", "float64", Floats(<<-1, -1, -1, -1>>)),
                Col("B", "object", Strs(<<"", "", "", "">>)),
                Col("Y", "int64", Ints(<<0, 0, 0, 1>>)) >>),
    Table(4, << Col("F", "float64", Floats(<<0, 0, 0, 0>>)),
                Col("H", "float64", Floats(<<1, -1, 1, 1>>)),
                Col("C", "category", Strs(<<"x", "", "x", "y">>)) >>),
    Table(0, << Col("A", "float64", <<>>),
                Col("B", "object", <<>>) >>) }

\* a table with some of the columns of df left out
Projections(df) ==
  {Table(df.nrows, SelectSeq(df.cols, LAMBDA c : c.name \in names)) :
     names \in SUBSET ColNameSet(df)}

PipeTables ==
  {T \in UNION {Projections(b) : b \in BaseTables} :
     T.cols # <<>> \/ T.nrows = 0}

\* the constructor arguments
HighNAThresholds == {-1, 0, 50, 100, 101}

LowVarThresholds == {<<-1, 100>>, <<0, 1>>, <<1, 100>>, <<1, 4>>, <<1, 2>>}

NumStrategies == {"mean", "median", "mode", "max"}

CatStrategies == {"mode", "Missing"}

CategorizeLists == {<<>>, <<"B">>, <<"A", "G">>}

ObjectCriteria ==
  {<<1, 10, 50>>, <<1, 2, 50>>, <<3, 5, 50>>, <<3, 4, 50>>, <<3, 4, 1>>}

DropperArgs ==
  { <<TRUE, <<>>>>, <<TRUE, <<Str("Y")>>>>, <<TRUE, <<Str("A"), Str("B")>>>>,
    <<TRUE, <<Str("A"), Num(1)>>>>, <<FALSE, <<>>>> }

\* ------------------------------------------------------------- state
VARIABLES
  self,     \* the pipeline-step instance (NoInstance when none is in use)
  ncalls,   \* the calls made so far
  nfit,     \* the fit calls made so far on the instance
  op,       \* the last operation: "new" (a caller holding a table), "init"
            \* (a constructor call), "analyze", "fit", "transform", "names"
            \* (get_feature_names_out with a list), "names_none"
  arg,      \* the thresholds argument of the analyze call, or the
            \* constructor call the instance comes from
  X0,       \* the caller's table as it was when it was handed to the call
  X,        \* the caller's table object now
  ret,      \* what the last call handed back
  running   \* the fit calls in progress on the instance, each with its
            \* table, its position and its local variables

vars == <<self, ncalls, nfit, op, arg, X0, X, ret, running>>

\* the part of an outcome the caller sees
Returned(o) ==
  [exc    |-> o.exc,
   ref    |-> o.ref,
   table  |-> IF o.ref = 0 THEN EmptyTable ELSE o.h[o.ref],
   report |-> o.report,
   names  |-> <<>>,
   none   |-> FALSE]

Nothing ==
  [exc |-> "none", ref |-> 0, table |-> EmptyTable, report |-> <<>>,
   names |-> <<>>, none |-> FALSE]

\* no fit call in progress
NoCalls == [run |-> <<>>, overlap |-> FALSE, last |-> 0]

\* a caller holding a table and a thresholds argument
InitCorr ==
  /\ self = NoInstance
  /\ ncalls = 0
  /\ nfit = 0
  /\ op = "new"
  /\ arg \in ThresholdArgs
  /\ X0 \in CorrTables
  /\ X = X0
  /\ ret = Nothing
  /\ running = NoCalls

\* the call analyze_feature_correlations(X, arg)
Analyze ==
  /\ op = "new"
  /\ ncalls = 0
  /\ LET o == AnalyzeFeatureCorrelations(<<X>>, arg)
     IN  /\ X' = o.h[1]
         /\ ret' = Returned(o)
  /\ op' = "analyze"
  /\ ncalls' = 1
  /\ UNCHANGED <<self, nfit, arg, X0, running>>

NextCorr == Analyze

SpecCorr == InitCorr /\ [][NextCorr]_vars

\* the constructor calls: the class and its arguments
ConstructorCalls ==
  {[kind |-> "DropColumnsHighNA", args |-> <<t>>] : t \in HighNAThresholds}
    \cup {[kind |-> "IdentifyAndDropLowVarNum", args |-> q] :
            q \in LowVarThresholds}
    \cup {[kind |-> "MissingValueImputer", args |-> <<n, c>>] :
            n \in NumStrategies, c \in CatStrategies}
    \cup {[kind |-> "SpecificColumnCategorizer", args |-> <<q>>] :
            q \in CategorizeLists}
    \cup {[kind |-> "ObjectToCategoryTransformer", args |-> q] :
            q \in ObjectCriteria}
    \cup {[kind |-> "FloatToCategoryTransformer", args |-> <<>>],
          [kind |-> "BooleanToCategoryTransformer", args |-> <<>>]}
    \cup {[kind |-> "ColumnDropper", args |-> q] : q \in DropperArgs}

\* the outcome of a constructor call
Construct(c) ==
  CASE c.kind = "DropColumnsHighNA" -> DropColumnsHighNA_init(c.args[1])
    [] c.kind = "IdentifyAndDropLowVarNum" ->
         IdentifyAndDropLowVarNum_init(c.args[1], c.args[2])
    [] c.kind = "MissingValueImputer" ->
         MissingValueImputer_init(c.args[1], c.args[2])
    [] c.kind = "SpecificColumnCategorizer" ->
         SpecificColumnCategorizer_init(c.args[1])
    [] c.kind = "ObjectToCategoryTransformer" ->
         ObjectToCategoryTransformer_init(c.args[1], c.args[2], c.args[3])
    [] c.kind = "FloatToCategoryTransformer" -> FloatToCategoryTransformer_init
    [] c.kind = "BooleanToCategoryTransformer" ->
         BooleanToCategoryTransformer_init
    [] c.kind = "ColumnDropper" -> ColumnDropper_init(c.args[1], c.args[2])

\* the outcomes of the constructor calls
Constructions == {Construct(c) : c \in ConstructorCalls}

\* a constructor has been called: an instance exists unless it raised
InitPipe ==
  /\ arg \in ConstructorCalls
  /\ self = Construct(arg).self
  /\ ret = Returned(Construct(arg))
  /\ ncalls = 0
  /\ nfit = 0
  /\ op = "init"
  /\ X0 = EmptyTable
  /\ X = X0
  /\ running = NoCalls

\* the call self.fit(T)
Fit ==
  /\ self # NoInstance
  /\ ncalls < MaxCalls
  /\ \E T \in PipeTables :
       \E o \in FitOutcomes(self, <<T>>) :
         /\ self' = o.self
         /\ X0' = T
         /\ X' = o.h[1]
         /\ ret' = Returned(o)
  /\ op' = "fit"
  /\ ncalls' = ncalls + 1
  /\ nfit' = nfit + 1
  /\ UNCHANGED <<arg, running>>

\* the call self.transform(T)
Transform ==
  /\ self # NoInstance
  /\ ncalls < MaxCalls
  /\ \E T \in PipeTables :
       LET o == TransformOutcome(self, <<T>>)
       IN  /\ self' = o.self
           /\ X0' = T
           /\ X' = o.h[1]
           /\ ret' = Returned(o)
  /\ op' = "transform"
  /\ ncalls' = ncalls + 1
  /\ UNCHANGED <<nfit, arg, running>>

NextPipe == Fit \/ Transform

SpecPipe == InitPipe /\ [][NextPipe]_vars

\* the analysis and the pipeline steps together
Init == InitCorr \/ InitPipe

Next == Analyze \/ Fit \/ Transform

Spec == Init /\ [][Next]_vars

\* ------------------------------------------------------------- feature names
(***************************************************************************)
(* get_feature_names_out(input_features): given says whether a list was    *)
(* passed (input_features is not None).  The result is the exception       *)
(* raised, the list returned, and whether None was returned instead.       *)
(***************************************************************************)
NamesResult(exc, names, none) == [exc |-> exc, names |-> names, none |-> none]

\* [col for col in input_features if col not in columns]
Without(input_features, columns) ==
  SelectSeq(input_features, LAMBDA col : col \notin Range(columns))

DropColumnsHighNA_get_feature_names_out(inst, given, input_features) ==
  IF ~given
  THEN IF "columns_to_drop_" \in DOMAIN inst.learned
       THEN NamesResult("none", <<>>, FALSE)
       ELSE NamesResult("RuntimeError", <<>>, FALSE)
  ELSE IF "columns_to_drop_" \notin DOMAIN inst.learned
  THEN NamesResult("none", input_features, FALSE)
  ELSE NamesResult("none",
                   Without(input_features, inst.learned.columns_to_drop_),
                   FALSE)

\* variant: the names are derived from the columns seen by fit
IdentifyAndDropLowVarNum_get_feature_names_out_of_fit(inst, given, input_features) ==
  NamesResult("none",
              Without(inst.learned._input_features_during_fit,
                      inst.learned.columns_to_drop_),
              FALSE)

IdentifyAndDropLowVarNum_get_feature_names_out(inst, given, input_features) ==
  LET seen == inst.learned._input_features_during_fit
      used == IF given THEN input_features ELSE seen
  IN  IF ~given /\ seen = <<>>
      THEN NamesResult("ValueError", <<>>, FALSE)
      ELSE IF "columns_to_drop_" \notin DOMAIN inst.learned
      THEN NamesResult("none", used, FALSE)
      ELSE NamesResult("none",
                       Without(used, inst.learned.columns_to_drop_), FALSE)

ColumnDropper_get_feature_names_out(inst, given, input_features) ==
  IF ~given THEN NamesResult("ValueError", <<>>, FALSE)
  ELSE IF "_fitted_columns_to_drop" \notin DOMAIN inst.learned
  THEN NamesResult("none", input_features, FALSE)
  ELSE NamesResult("none",
                   Without(input_features,
                           inst.learned._fitted_columns_to_drop),
                   FALSE)

MissingValueImputer_get_feature_names_out(inst, given, input_features) ==
  IF ~given
  THEN NamesResult("none",
                   inst.learned.numerical_cols_ \o inst.learned.categorical_cols_,
                   FALSE)
  ELSE NamesResult("none", input_features, FALSE)

SpecificColumnCategorizer_get_feature_names_out(inst, given, input_features) ==
  IF given THEN NamesResult("none", input_features, FALSE)
  ELSE NamesResult("none", inst.learned.fitted_columns_, FALSE)

\* ObjectToCategoryTransformer, FloatToCategoryTransformer and
\* BooleanToCategoryTransformer: return input_features
Converter_get_feature_names_out(inst, given, input_features) ==
  IF given THEN NamesResult("none", input_features, FALSE)
  ELSE NamesResult("none", <<>>, TRUE)

NamesOutcome(inst, given, input_features) ==
  CASE inst.kind = "DropColumnsHighNA" ->
         DropColumnsHighNA_get_feature_names_out(inst, given, input_features)
    [] inst.kind = "IdentifyAndDropLowVarNum" ->
         IdentifyAndDropLowVarNum_get_feature_names_out(inst, given,
                                                        input_features)
    [] inst.kind = "ColumnDropper" ->
         ColumnDropper_get_feature_names_out(inst, given, input_features)
    [] inst.kind = "MissingValueImputer" ->
         MissingValueImputer_get_feature_names_out(inst, given, input_features)
    [] inst.kind = "SpecificColumnCategorizer" ->
         SpecificColumnCategorizer_get_feature_names_out(inst, given,
                                                         input_features)
    [] OTHER -> Converter_get_feature_names_out(inst, given, input_features)

\* the call self.get_feature_names_out(list(T.columns)), or with None
FeatureNamesOut ==
  /\ self # NoInstance
  /\ ncalls < MaxCalls
  /\ \E T \in PipeTables, given \in BOOLEAN :
       LET o == NamesOutcome(self, given, ColNames(T))
       IN  /\ X0' = IF given THEN T ELSE EmptyTable
           /\ X' = IF given THEN T ELSE EmptyTable
           /\ ret' = [Nothing EXCEPT !.exc = o.exc, !.names = o.names,
                                     !.none = o.none]
           /\ op' = IF given THEN "names" ELSE "names_none"
  /\ ncalls' = ncalls + 1
  /\ UNCHANGED <<self, nfit, arg, running>>

NextNames == Fit \/ Transform \/ FeatureNamesOut

SpecNames == InitPipe /\ [][NextNames]_vars

\* ------------------------------------------------------------- overlapping fit
(***************************************************************************)
(* IdentifyAndDropLowVarNum.fit step by step.  The learned attributes are  *)
(* plain fields of the instance, so a second fit call running on the same  *)
(* instance reads and writes them between the steps of the first.  Each    *)
(* step gives the instance after it, the next position, the local list of  *)
(* columns valid for scaling, and the exception that ended the call.       *)
(***************************************************************************)
Step(inst, pc, valid, exc) ==
  [inst |-> inst, pc |-> pc, valid |-> valid, exc |-> exc]

\* variant: the drop-list of the earlier fit is not cleared
IdentifyAndDropLowVarNum_fit_reset_keep(inst, T) ==
  Step([inst EXCEPT
          !.learned._input_features_during_fit = ColNames(T),
          !.learned.numeric_cols_considered_ =
            NamesOf(SelectSeq(T.cols, IsNumber))],
       "scale", <<>>, "none")

\* self._input_features_during_fit, self.columns_to_drop_ = [] and
\* self.numeric_cols_considered_ are assigned
IdentifyAndDropLowVarNum_fit_reset(inst, T) ==
  Step([inst EXCEPT
          !.learned._input_features_during_fit = ColNames(T),
          !.learned.columns_to_drop_ = <<>>,
          !.learned.numeric_cols_considered_ =
            NamesOf(SelectSeq(T.cols, IsNumber))],
       "scale", <<>>, "none")

\* self.numeric_cols_considered_ is read back: return when it is empty,
\* X[...] raises KeyError for a column X lacks, the columns with a present
\* value are scaled; when there is none the drop-list is assigned from the
\* raw variances and the call returns
IdentifyAndDropLowVarNum_fit_scale(inst, T) ==
  LET considered == inst.learned.numeric_cols_considered_
      valid      == SelectSeq(considered,
                      LAMBDA col : PresentRows(GetCol(T, col)) # {})
      original   == SelectSeq(considered,
                      LAMBDA col : RawVarianceIsZero(GetCol(T, col)))
  IN  IF considered = <<>> THEN Step(inst, "done", <<>>, "none")
      ELSE IF AbsentFrom(considered, T) # <<>>
      THEN Step(inst, "done", <<>>, "KeyError")
      ELSE IF valid = <<>>
      THEN Step([inst EXCEPT !.learned.columns_to_drop_ = original],
                "done", <<>>, "none")
      ELSE Step(inst, "extend_zero", valid, "none")

\* self.columns_to_drop_.extend(zero_var_cols)
IdentifyAndDropLowVarNum_fit_extend_zero(inst, T, valid) ==
  Step([inst EXCEPT !.learned.columns_to_drop_ =
          @ \o SelectSeq(valid, LAMBDA col : IsConstant(GetCol(T, col)))],
       "extend_quasi", valid, "none")

\* self.columns_to_drop_.extend(quasi_var_cols)
IdentifyAndDropLowVarNum_fit_extend_quasi(inst, T, valid) ==
  Step([inst EXCEPT !.learned.columns_to_drop_ =
          @ \o SelectSeq(valid,
                 LAMBDA col : IsQuasiConstant(GetCol(T, col),
                                              inst.cfg.qn, inst.cfg.qd))],
       "unscaled", valid, "none")

\* the columns of self.numeric_cols_considered_ that were not scaled and
\* have raw variance 0 are appended unless the list holds them
IdentifyAndDropLowVarNum_fit_unscaled(inst, T, valid) ==
  LET unscaled == SelectSeq(inst.learned.numeric_cols_considered_,
                    LAMBDA col : col \notin Range(valid))
      zero_uns == SelectSeq(unscaled,
                    LAMBDA col : RawVarianceIsZero(GetCol(T, col)))
  IN  IF AbsentFrom(unscaled, T) # <<>>
      THEN Step(inst, "done", valid, "KeyError")
      ELSE Step([inst EXCEPT !.learned.columns_to_drop_ =
                   @ \o SelectSeq(zero_uns,
                          LAMBDA col : col \notin Range(@))],
                "dedup", valid, "none")

\* self.columns_to_drop_ = list(set(self.columns_to_drop_)): one outcome for
\* every order
IdentifyAndDropLowVarNum_fit_dedup(inst, T, valid) ==
  {Step([inst EXCEPT !.learned.columns_to_drop_ = q], "done", valid, "none") :
     q \in ListOfSet(inst.learned.columns_to_drop_)}

\* the tables of the overlapping calls: a column name is numeric in all of
\* them or in none
OverlapTables ==
  {T \in BaseTables :
     \A k \in 1..Len(T.cols) :
       IsNumber(T.cols[k]) <=> T.cols[k].name \in {"X", "Y", "A", "F", "H"}}

\* one instance and two fit calls about to be made on it
InitOverlap ==
  /\ arg \in ConstructorCalls
  /\ arg.kind = "IdentifyAndDropLowVarNum"
  /\ Construct(arg).exc = "none"
  /\ self = Construct(arg).self
  /\ ret = Returned(Construct(arg))
  /\ ncalls = 0
  /\ nfit = 0
  /\ op = "init"
  /\ X0 = EmptyTable
  /\ X = X0
  /\ \E T1 \in OverlapTables, T2 \in OverlapTables :
       running = [run     |-> <<[T |-> T1, pc |-> "reset", valid |-> <<>>],
                               [T |-> T2, pc |-> "reset", valid |-> <<>>]>>,
                  overlap |-> FALSE,
                  last    |-> 0]

\* call i takes the step with result st; the calls overlap when the other
\* call has been entered and has not returned
Advance(i, st) ==
  /\ self' = st.inst
  /\ running' =
       [run     |-> [running.run EXCEPT ![i].pc = st.pc, ![i].valid = st.valid],
        overlap |-> running.overlap
                      \/ \E j \in 1..Len(running.run) :
                           j # i /\ running.run[j].pc \notin {"reset", "done"},
        last    |-> IF st.pc = "done" THEN i ELSE running.last]
  /\ IF st.pc = "done"
     THEN /\ op' = "fit"
          /\ X0' = running.run[i].T
          /\ X' = running.run[i].T
          /\ ret' = [Nothing EXCEPT !.exc = st.exc]
     ELSE UNCHANGED <<op, X0, X, ret>>
  /\ UNCHANGED arg

FitReset(i) ==
  /\ running.run[i].pc = "reset"
  /\ Advance(i, IdentifyAndDropLowVarNum_fit_reset(self, running.run[i].T))
  /\ ncalls' = ncalls + 1
  /\ nfit' = nfit + 1

FitScale(i) ==
  /\ running.run[i].pc = "scale"
  /\ Advance(i, IdentifyAndDropLowVarNum_fit_scale(self, running.run[i].T))
  /\ UNCHANGED <<ncalls, nfit>>

FitExtendZero(i) ==
  /\ running.run[i].pc = "extend_zero"
  /\ Advance(i, IdentifyAndDropLowVarNum_fit_extend_zero(
                  self, running.run[i].T, running.run[i].valid))
  /\ UNCHANGED <<ncalls, nfit>>

FitExtendQuasi(i) ==
  /\ running.run[i].pc = "extend_quasi"
  /\ Advance(i, IdentifyAndDropLowVarNum_fit_extend_quasi(
                  self, running.run[i].T, running.run[i].valid))
  /\ UNCHANGED <<ncalls, nfit>>

FitUnscaled(i) ==
  /\ running.run[i].pc = "unscaled"
  /\ Advance(i, IdentifyAndDropLowVarNum_fit_unscaled(
                  self, running.run[i].T, running.run[i].valid))
  /\ UNCHANGED <<ncalls, nfit>>

FitDedup(i) ==
  /\ running.run[i].pc = "dedup"
  /\ \E st \in IdentifyAndDropLowVarNum_fit_dedup(
                  self, running.run[i].T, running.run[i].valid) :
       Advance(i, st)
  /\ UNCHANGED <<ncalls, nfit>>

NextOverlap ==
  \E i \in 1..2 :
    \/ FitReset(i)
    \/ FitScale(i)
    \/ FitExtendZero(i)
    \/ FitExtendQuasi(i)
    \/ FitUnscaled(i)
    \/ FitDedup(i)

SpecOverlap == InitOverlap /\ [][NextOverlap]_vars

\* ------------------------------------------------------------- claims
\* definitions the claims about analyze_feature_correlations share
NumericNames(df) == {c.name : c \in Range(NumericOnly(df))}

\* the correlation of the columns named a and b of df
CorrOf(df, a, b) == Pearson(GetCol(df, a), GetCol(df, b))

\* how often the unordered pair S is listed under band k of a report
Occurrences(report, k, S) ==
  Cardinality({m \in 1..Len(report[k].pairs) :
                 {report[k].pairs[m].a, report[k].pairs[m].b} = S})

\* the first band, in iteration order, whose interval test r passes; 0 if none
FirstMatch(thresholds, r) ==
  LET hits == {k \in 1..Len(thresholds) : BandMatches(thresholds[k], r)}
  IN  IF hits = {} THEN 0 ELSE CHOOSE k \in hits : \A m \in hits : k <= m

Levels(bands) == {bands[k].level : k \in 1..Len(bands)}

\* C1: every unordered pair of numeric features is listed exactly once, under
\* the first band of the threshold table whose interval test it passes, and
\* is listed nowhere when no band matches it.
C1_FirstMatchWins ==
  op = "analyze" =>
    LET th == EffectiveThresholds(arg)
    IN  \A a, b \in NumericNames(X0) :
          a # b =>
            \A k \in 1..Len(ret.report) :
              Occurrences(ret.report, k, {a, b}) =
                IF k = FirstMatch(th, CorrOf(X0, a, b)) THEN 1 ELSE 0

\* C1 witness: a pair passes the tests of two bands of a supplied table and
\* is listed under the first of them only
C1_Witness ==
  /\ op = "analyze"
  /\ arg.kind = "dict"
  /\ Len(ret.report) = 2
  /\ \E a, b \in NumericNames(X0) :
       /\ a # b
       /\ BandMatches(arg.bands[1], CorrOf(X0, a, b))
       /\ BandMatches(arg.bands[2], CorrOf(X0, a, b))
       /\ Occurrences(ret.report, 1, {a, b}) = 1
       /\ Occurrences(ret.report, 2, {a, b}) = 0

PositiveLevels ==
  {"very_low_positive", "low_positive", "medium_positive", "high_positive",
   "perfect_positive"}

NegativeLevels ==
  {"very_low_negative", "low_negative", "medium_negative", "high_negative",
   "perfect_negative"}

\* C2: with the default table (thresholds=None) every pair with
\* 0.1 <= |r| <= 1 is listed under exactly one band, a positive band holding r
\* when r > 0 and a negative band holding r when r < 0.
C2_DefaultBandMatchesSign ==
  (op = "analyze" /\ arg = NoneArg) =>
    \A a, b \in NumericNames(X0) :
      LET r == CorrOf(X0, a, b)
      IN  (a # b /\ CorrGeq(AbsCorr(r), 100000)) =>
            \E k \in 1..Len(ret.report) :
              /\ Occurrences(ret.report, k, {a, b}) = 1
              /\ \A m \in 1..Len(ret.report) :
                   m # k => Occurrences(ret.report, m, {a, b}) = 0
              /\ ret.report[k].level \in
                   (IF r.s > 0 THEN PositiveLevels ELSE NegativeLevels)
              /\ CorrGeq(r, DefaultThresholds[k].lo)
              /\ CorrLt(r, DefaultThresholds[k].hi)

\* C3: when the caller leaves thresholds out, the report has the ten default
\* keys and the pairs are classified against the default bands.
C3_UnsetUsesDefaultTable ==
  (op = "analyze" /\ arg = Unset) =>
    /\ [k \in 1..Len(ret.report) |-> ret.report[k].level] =
         [k \in 1..Len(DefaultThresholds) |-> DefaultThresholds[k].level]
    /\ ret.report = ReportOf(X0, NoneArg)

\* the interval test C4 states for a band (lo, hi) on a correlation r
C4Test(band, r) ==
  IF band.lo < 0 \/ band.hi <= 0
  THEN CorrGeq(r, band.lo) /\ CorrLt(r, band.hi)
  ELSE CorrGeq(AbsCorr(r), band.lo) /\ CorrLt(AbsCorr(r), band.hi)

\* C4: against a caller-supplied table a pair is listed under band k exactly
\* when it passes the band's test (signed r for a band with min < 0 or
\* max <= 0, |r| otherwise) and the test of no earlier band, and the listed
\* triple carries the signed r.
C4_DirectionalOrMagnitude ==
  (op = "analyze" /\ arg.kind = "dict") =>
    /\ \A k \in 1..Len(ret.report) :
         \A m \in 1..Len(ret.report[k].pairs) :
           LET e == ret.report[k].pairs[m]
           IN  /\ e.r = CorrOf(X0, e.a, e.b)
               /\ C4Test(arg.bands[k], e.r)
    /\ \A a, b \in NumericNames(X0) :
         \A k \in 1..Len(arg.bands) :
           (/\ a # b
            /\ C4Test(arg.bands[k], CorrOf(X0, a, b))
            /\ \A m \in 1..(k - 1) : ~C4Test(arg.bands[m], CorrOf(X0, a, b)))
           => Occurrences(ret.report, k, {a, b}) = 1

\* C4 witness: a negatively correlated pair is listed, with its negative r,
\* under a magnitude band
C4_Witness ==
  /\ op = "analyze"
  /\ arg.kind = "dict"
  /\ \E k \in 1..Len(ret.report) :
       /\ arg.bands[k].lo >= 0
       /\ arg.bands[k].hi > 0
       /\ \E m \in 1..Len(ret.report[k].pairs) : ret.report[k].pairs[m].r.s < 0

\* the threshold table a call works with: the caller's dict, the default
\* table for thresholds=None, the empty dict when the argument is left out
GivenTable == IF arg.kind = "none" THEN DefaultThresholds ELSE arg.bands

\* C5: the report has exactly the keys of the threshold table, in its order,
\* whatever the input table.
C5_ReportKeys ==
  (op = "analyze") =>
    /\ Len(ret.report) = Len(GivenTable)
    /\ \A k \in 1..Len(GivenTable) : ret.report[k].level = GivenTable[k].level

\* C5 witness: a supplied table of two bands, one band with a pair and one
\* with an empty list, both present in the report
C5_Witness ==
  /\ op = "analyze"
  /\ arg.kind = "dict"
  /\ Len(arg.bands) = 2
  /\ Levels(ret.report) = Levels(arg.bands)
  /\ \E k, m \in 1..Len(ret.report) :
       ret.report[k].pairs = <<>> /\ ret.report[m].pairs # <<>>

\* the entries of one band as unordered pairs with their signed correlation
PairSet(entries) ==
  {<<{entries[m].a, entries[m].b}, entries[m].r>> : m \in 1..Len(entries)}

\* the tables that hold the columns of df in another order
Reorderings(df) ==
  {Table(df.nrows, q) :
     q \in {p \in Arrangements(Range(df.cols), Len(df.cols)) :
              Len(p) = Len(df.cols)}}

\* C6: the report of every reordering of the table's columns lists, band by
\* band, the same unordered pairs with the same signed correlation.
C6_ColumnOrderIrrelevant ==
  op = "analyze" =>
    \A df \in Reorderings(X0) :
      LET other == ReportOf(df, arg)
      IN  /\ Len(other) = Len(ret.report)
          /\ \A k \in 1..Len(other) :
               /\ other[k].level = ret.report[k].level
               /\ PairSet(other[k].pairs) = PairSet(ret.report[k].pairs)

\* C6 witness: three numeric columns, pairs listed in two bands
C6_Witness ==
  /\ op = "analyze"
  /\ Cardinality(NumericNames(X0)) = 3
  /\ Len(ret.report) = 2
  /\ ret.report[1].pairs # <<>>
  /\ ret.report[2].pairs # <<>>

\* definitions the claims about the pipeline steps share
DropKinds == {"DropColumnsHighNA", "IdentifyAndDropLowVarNum", "ColumnDropper"}

\* the learned drop-list of a drop step
DropList(inst) ==
  IF inst.kind = "ColumnDropper" THEN inst.learned._fitted_columns_to_drop
  ELSE inst.learned.columns_to_drop_

\* a new instance with the configuration of inst
Fresh(inst) ==
  (CHOOSE o \in Constructions :
     o.self.kind = inst.kind /\ o.self.cfg = inst.cfg).self

\* what the caller of inst.transform(T) sees
TransformResult(inst, T) == Returned(TransformOutcome(inst, <<T>>))

\* C7: for every pipeline step, transform on an instance on which fit has
\* never been called raises and returns no table.
C7_TransformBeforeFitRaises ==
  (op = "transform" /\ nfit = 0) => (ret.exc # "none" /\ ret.ref = 0)

\* C8: after fit(T1) and a successful fit(T2) on one instance, transform
\* returns for every table T what a new instance with the same configuration
\* fitted only on T2 returns.
C8_RefitOverwrites ==
  (op = "fit" /\ nfit >= 2 /\ ret.exc = "none") =>
    \A f \in FitOutcomes(Fresh(self), <<X0>>) :
      /\ f.exc = "none"
      /\ \A T \in PipeTables :
           TransformResult(self, T) = TransformResult(f.self, T)

\* C8 witness: an imputer re-fitted on a table where a column that was
\* numeric in the first fit is now text still holds the numeric fill value
\* of the first fit in its map
C8_Witness ==
  /\ op = "fit"
  /\ nfit = 2
  /\ ret.exc = "none"
  /\ self.kind = "MissingValueImputer"
  /\ \E col \in DictKeys(self.learned.num_imputers_) :
       /\ col \in Range(self.learned.categorical_cols_)
       /\ DictGet(self.learned.num_imputers_, col) # NoneV
       /\ \E T \in PipeTables : HasCol(T, col) /\ AnyNull(GetCol(T, col))

\* C9: after any fit, transform or analyze_feature_correlations call the
\* caller's table has the columns, types and values it had before the call,
\* and a transform that returns hands back an object other than the
\* caller's table.
C9_CallerTableUntouched ==
  (op \in {"analyze", "fit", "transform"}) =>
    /\ X = X0
    /\ (op = "transform" /\ ret.exc = "none") => ret.ref > 1

\* C9 witness: a fitted step's transform that drops, fills and converts
\* nothing returns an equal table that is a separate object
C9_Witness ==
  /\ op = "transform"
  /\ nfit > 0
  /\ ret.exc = "none"
  /\ X0.cols # <<>>
  /\ ret.table = X0
  /\ ret.ref > 1
  /\ X = X0

\* C10: a transform that returns keeps every row in place; a drop step
\* returns exactly the input columns that are not in the learned drop-list,
\* in input order with their types and values; the imputer and the
\* converters return the input's column names in input order.
C10_TransformShape ==
  (op = "transform" /\ ret.exc = "none") =>
    /\ ret.table.nrows = X0.nrows
    /\ \A k \in 1..Len(ret.table.cols) :
         Len(ret.table.cols[k].vals) = X0.nrows
    /\ self.kind \in DropKinds =>
         ret.table.cols =
           SelectSeq(X0.cols, LAMBDA c : c.name \notin Range(DropList(self)))
    /\ self.kind \notin DropKinds =>
         /\ ColNames(ret.table) = ColNames(X0)
         /\ \A k \in 1..Len(X0.cols) :
              \A i \in 1..X0.nrows :
                ~IsNull(X0.cols[k].vals[i]) =>
                  ret.table.cols[k].vals[i] = X0.cols[k].vals[i]

\* C10 witness: the low-variance dropper drops a constant column and returns
\* the two other columns, one of them numeric with values outside [0, 1]
C10_Witness ==
  /\ op = "transform"
  /\ ret.exc = "none"
  /\ self.kind = "IdentifyAndDropLowVarNum"
  /\ Len(X0.cols) = 3
  /\ Len(ret.table.cols) = 2
  /\ \E k \in 1..2 :
       /\ IsNumber(ret.table.cols[k])
       /\ Num(3) \in Range(ret.table.cols[k].vals)

C12_SchemaDriftTolerated ==
  (op = "transform"
     /\ self.kind \in {"DropColumnsHighNA", "IdentifyAndDropLowVarNum"}) =>
    LET learned == Range(self.learned.columns_to_drop_)
    IN  /\ ret.exc = "none"
        /\ ColNameSet(ret.table) = ColNameSet(X0) \ learned
        /\ \A k \in 1..Len(ret.table.cols) :
             ret.table.cols[k] = GetCol(X0, ret.table.cols[k].name)
        /\ (learned \cap ColNameSet(X0) = {}) => ret.table = X0

\* C12 witness: the low-variance dropper fitted on [X, Y, Z] with Y learned
\* is applied to [X, Z] and returns [X, Z] as it is
C12_Witness ==
  /\ op = "transform"
  /\ self.kind = "IdentifyAndDropLowVarNum"
  /\ self.learned._input_features_during_fit = <<"X", "Y", "Z">>
  /\ self.learned.columns_to_drop_ = <<"Y">>
  /\ ColNames(X0) = <<"X", "Z">>
  /\ ret.exc = "none"
  /\ ret.table = X0

\* the population variance of the min-max-rescaled present values of a
\* numeric column as the fraction num/den: the mean of the squares minus the
\* square of the mean of (x - min) / (max - min), the divisor 1 when max = min
RescaledVariance(col) ==
  LET rows == {i \in 1..Len(col.vals) : col.vals[i] # NA}
      n    == Cardinality(rows)
      lo   == CHOOSE x \in {col.vals[i].n : i \in rows} :
                \A i \in rows : x <= col.vals[i].n
      hi   == CHOOSE x \in {col.vals[i].n : i \in rows} :
                \A i \in rows : x >= col.vals[i].n
      w    == IF hi = lo THEN 1 ELSE hi - lo
      s1   == SumSet([i \in rows |-> col.vals[i].n - lo], rows)
      s2   == SumSet([i \in rows |-> (col.vals[i].n - lo) * (col.vals[i].n - lo)],
                     rows)
  IN  [num |-> n * s2 - s1 * s1, den |-> n * n * w * w]

\* a column with two distinct values, each on half of the rows
TwoValuesEvenly(col) ==
  /\ \A i \in 1..Len(col.vals) : col.vals[i] # NA
  /\ \E a, b \in Range(col.vals) :
       /\ a # b
       /\ Range(col.vals) = {a, b}
       /\ 2 * Cardinality({i \in 1..Len(col.vals) : col.vals[i] = a})
            = Len(col.vals)

\* C13: IdentifyAndDropLowVarNum.fit learns a numeric column with at least
\* one present value exactly when the population variance v of its rescaled
\* values is 0 or 0 < v < quasi_constant_threshold; a column with one value
\* on all rows is always learned, a column with two values on half of the
\* rows each exactly when the threshold is above 1/4.
C13_LowVarDropList ==
  (op = "fit" /\ self.kind = "IdentifyAndDropLowVarNum") =>
    \A k \in 1..Len(X0.cols) :
      LET c      == X0.cols[k]
          v      == RescaledVariance(c)
          listed == c.name \in Range(self.learned.columns_to_drop_)
      IN  (c.dtype \in {"int64", "float64"}
             /\ \E i \in 1..Len(c.vals) : c.vals[i] # NA) =>
            /\ listed <=>
                 \/ v.num = 0
                 \/ v.num > 0 /\ v.num * self.cfg.qd < self.cfg.qn * v.den
            /\ (\A i \in 1..Len(c.vals) : c.vals[i] = c.vals[1]) => listed
            /\ TwoValuesEvenly(c) =>
                 /\ v.num * 4 = v.den
                 /\ listed <=> (4 * self.cfg.qn > self.cfg.qd)

\* C13 witness: with the threshold exactly 1/4 a constant column is learned
\* and a column with two values on half of the rows each (v = 1/4) is not
C13_Witness ==
  /\ op = "fit"
  /\ self.kind = "IdentifyAndDropLowVarNum"
  /\ self.cfg.qn * 4 = self.cfg.qd
  /\ \E k, m \in 1..Len(X0.cols) :
       /\ TwoValuesEvenly(X0.cols[k])
       /\ X0.cols[k].name \notin Range(self.learned.columns_to_drop_)
       /\ X0.cols[m].dtype = "float64"
       /\ RescaledVariance(X0.cols[m]).num = 0
       /\ X0.cols[m].name \in Range(self.learned.columns_to_drop_)

\* the value the fitted imputer holds for the column named c of its fit
\* table X0
LearnedFill(c) ==
  IF GetCol(X0, c).dtype \in {"int64", "float64"}
  THEN DictGet(self.learned.num_imputers_, c)
  ELSE DictGet(self.learned.cat_imputers_, c)

\* C14: for an imputer fitted on X0 and every table T, transform returns T
\* with the missing entries of a column replaced by the value learned for
\* it exactly when the column had a missing value in X0; missing entries of
\* columns that were clean in X0 or are not in X0 stay, and no present value
\* changes.
C14_FillsExactlyLearned ==
  (op = "fit" /\ self.kind = "MissingValueImputer") =>
    \A T \in PipeTables :
      LET out == TransformResult(self, T)
      IN  /\ out.exc = "none"
          /\ ColNames(out.table) = ColNames(T)
          /\ \A k \in 1..Len(T.cols) :
               \A i \in 1..T.nrows :
                 LET c     == T.cols[k].name
                     old   == T.cols[k].vals[i]
                     new   == out.table.cols[k].vals[i]
                     dirty == /\ c \in ColNameSet(X0)
                              /\ NA \in Range(GetCol(X0, c).vals)
                 IN  /\ old # NA => new = old
                     /\ (old = NA /\ dirty) => new = LearnedFill(c)
                     /\ (old = NA /\ ~dirty) => new = NA

\* the table A = [1, 2, null, 4] (numeric), B = ["x", "y", "x", "x"] (text)
TableAB ==
  Table(4, << Col("A", "float64", <<Num(1), Num(2), NA, Num(4)>>),
              Col("B", "object", <<Str("x"), Str("y"), Str("x"), Str("x")>>) >>)

\* TableAB with the missing entry of A replaced by v
TableABFilled(v) ==
  Table(4, << Col("A", "float64", <<Num(1), Num(2), v, Num(4)>>),
              Col("B", "object", <<Str("x"), Str("y"), Str("x"), Str("x")>>) >>)

\* C15 as stated: the imputer with the numeric strategy median, fitted on
\* and applied to TableAB, fills the null in A with 2.5 and leaves B
\* untouched.
C15_RoundTripFillsTwoAndAHalf ==
  (op = "fit" /\ self.kind = "MissingValueImputer"
     /\ self.cfg.num_strategy = "median" /\ X0 = TableAB) =>
    /\ TransformResult(self, X0).exc = "none"
    /\ TransformResult(self, X0).table =
         TableABFilled([t |-> "num", n |-> 5, d |-> 2, s |-> ""])

\* C15 amended: the imputer with the numeric strategy median, fitted on and
\* applied to TableAB, fills the null in A with 2, the median of the present
\* values 1, 2, 4, and leaves B untouched.
C15_RoundTripFillsMedian ==
  (op = "fit" /\ self.kind = "MissingValueImputer"
     /\ self.cfg.num_strategy = "median" /\ X0 = TableAB) =>
    /\ TransformResult(self, X0).exc = "none"
    /\ TransformResult(self, X0).table = TableABFilled(Num(2))
    /\ DictGet(self.learned.cat_imputers_, "B") = NoneV

\* C15 witness: the median imputer fitted on TableAB has been applied to
\* TableAB and returned it with A = [1, 2, 2, 4]
C15_Witness ==
  /\ op = "transform"
  /\ self.kind = "MissingValueImputer"
  /\ self.cfg.num_strategy = "median"
  /\ self.learned.num_imputers_ = <<[k |-> "A", v |-> Num(2)]>>
  /\ self.learned.cat_imputers_ = <<[k |-> "B", v |-> NoneV]>>
  /\ X0 = TableAB
  /\ ret.exc = "none"
  /\ ret.table = TableABFilled(Num(2))

\* the columns the imputer has seen in its last fit
FittedColumns(inst) ==
  Range(inst.learned.numerical_cols_) \cup Range(inst.learned.categorical_cols_)

\* C16: for a fitted imputer, transform of a table without missing values in
\* the fitted columns returns a table equal to its input, and transform of
\* a table that transform has returned returns that table again.
C16_ImputerIdempotent ==
  (op = "transform" /\ self.kind = "MissingValueImputer" /\ nfit > 0) =>
    /\ (\A k \in 1..Len(X0.cols) :
          X0.cols[k].name \in FittedColumns(self) =>
            NA \notin Range(X0.cols[k].vals))
         => (ret.exc = "none" /\ ret.table = X0)
    /\ ret.exc = "none" =>
         /\ TransformResult(self, ret.table).exc = "none"
         /\ TransformResult(self, ret.table).table = ret.table

\* C16 witness: a transform has filled missing entries, and a second
\* transform of its result changes nothing
C16_Witness ==
  /\ op = "transform"
  /\ self.kind = "MissingValueImputer"
  /\ nfit > 0
  /\ ret.exc = "none"
  /\ ret.table # X0
  /\ \E k \in 1..Len(X0.cols) :
       Cardinality({i \in 1..X0.nrows : X0.cols[k].vals[i] = NA}) >= 2
         /\ NA \notin Range(ret.table.cols[k].vals)
  /\ TransformResult(self, ret.table).table = ret.table

\* how often the present value v occurs in the column c
Frequency(c, v) == Cardinality({i \in 1..Len(c.vals) : c.vals[i] = v})

\* v is a most frequent present value of the column c
MostFrequent(c, v) ==
  /\ v # NA
  /\ v \in Range(c.vals)
  /\ \A w \in Range(c.vals) : w # NA => Frequency(c, w) <= Frequency(c, v)

\* C17: with the mode strategy the value fit learns for a column with
\* missing values is a most frequent present value of the column; for a
\* column without any present value fit returns and learns 0 (numeric
\* column) or "Unknown" (non-numeric column).
C17_ModeOrFallback ==
  (op = "fit" /\ self.kind = "MissingValueImputer") =>
    /\ ret.exc = "none"
    /\ \A k \in 1..Len(X0.cols) :
         LET c       == X0.cols[k]
             numeric == c.dtype \in {"int64", "float64"}
             empty   == \A i \in 1..Len(c.vals) : c.vals[i] = NA
         IN  (NA \in Range(c.vals)) =>
               /\ (numeric /\ self.cfg.num_strategy = "mode") =>
                    IF empty
                    THEN DictGet(self.learned.num_imputers_, c.name) = Num(0)
                    ELSE MostFrequent(c, DictGet(self.learned.num_imputers_,
                                                 c.name))
               /\ (~numeric /\ self.cfg.cat_strategy = "mode") =>
                    IF empty
                    THEN DictGet(self.learned.cat_imputers_, c.name)
                           = Str("Unknown")
                    ELSE MostFrequent(c, DictGet(self.learned.cat_imputers_,
                                                 c.name))

\* C17 witness: a first fit with the mode strategies on a table with an
\* all-missing numeric column A and an all-missing text column B has
\* returned and learned 0 for A and "Unknown" for B
C17_Witness ==
  /\ op = "fit"
  /\ nfit = 1
  /\ ret.exc = "none"
  /\ self.kind = "MissingValueImputer"
  /\ self.cfg.num_strategy = "mode"
  /\ self.cfg.cat_strategy = "mode"
  /\ HasCol(X0, "A") /\ HasCol(X0, "B")
  /\ PresentRows(GetCol(X0, "A")) = {}
  /\ PresentRows(GetCol(X0, "B")) = {}
  /\ X0.nrows > 0
  /\ DictGet(self.learned.num_imputers_, "A") = Num(0)
  /\ DictGet(self.learned.cat_imputers_, "B") = Str("Unknown")

\* the steps whose learned state comes from the data of the fit table (the
\* lists of ColumnDropper and SpecificColumnCategorizer are the configured
\* columns)
DataLearningKinds ==
  {"DropColumnsHighNA", "IdentifyAndDropLowVarNum", "MissingValueImputer",
   "ObjectToCategoryTransformer", "FloatToCategoryTransformer",
   "BooleanToCategoryTransformer"}

\* nothing has been learned from the fit table X0: an empty drop-list or
\* conversion list, no fill value for any column of X0
LearnedNothing ==
  CASE self.kind \in {"DropColumnsHighNA", "IdentifyAndDropLowVarNum"} ->
         self.learned.columns_to_drop_ = <<>>
    [] self.kind = "ObjectToCategoryTransformer" ->
         self.learned.object_cols_to_convert_ = <<>>
    [] self.kind = "FloatToCategoryTransformer" ->
         self.learned.float_cols_to_convert_ = <<>>
    [] self.kind = "BooleanToCategoryTransformer" ->
         self.learned.bool_cols_to_convert_ = <<>>
    [] self.kind = "MissingValueImputer" ->
         \A c \in ColNameSet(X0) : LearnedFill(c) = NoneV
    [] OTHER -> TRUE

\* C18: fit of every step on a table without rows, whatever its columns,
\* returns; it leaves nothing learned, and transform of a table without
\* rows then returns that table unchanged.
C18_EmptyTableTolerated ==
  (op = "fit" /\ X0.nrows = 0
     /\ (self.kind = "ColumnDropper" =>
           Range(self.cfg.columns_to_drop) \subseteq ColNameSet(X0))) =>
    /\ ret.exc = "none"
    /\ self.kind \in DataLearningKinds =>
         /\ LearnedNothing
         /\ \A T \in PipeTables :
              T.nrows = 0 =>
                /\ TransformResult(self, T).exc = "none"
                /\ TransformResult(self, T).table = T

\* ---- C19 ----

\* the float columns of df whose present values all lie in {0.0, 1.0}
ZeroOneColumns(df) ==
  {c \in ColNameSet(df) :
     /\ GetCol(df, c).dtype = "float64"
     /\ \A k \in 1..df.nrows :
          GetCol(df, c).vals[k] # NA => GetCol(df, c).vals[k] \in {Num(0), Num(1)}}

AllMissing(df, c) == \A k \in 1..df.nrows : GetCol(df, c).vals[k] = NA

\* transform returns T with exactly the columns of S made categorical
ConvertsExactly(out, T, S) ==
  /\ out.exc = "none"
  /\ out.table.nrows = T.nrows
  /\ Len(out.table.cols) = Len(T.cols)
  /\ \A k \in 1..Len(T.cols) :
       /\ out.table.cols[k].name = T.cols[k].name
       /\ out.table.cols[k].vals = T.cols[k].vals
       /\ out.table.cols[k].dtype =
            IF T.cols[k].name \in S THEN "category" ELSE T.cols[k].dtype

\* C19 as stated: FloatToCategoryTransformer.fit learns exactly the float
\* columns whose non-missing values are a subset of {0.0, 1.0}, columns
\* whose values are all missing included, and transform converts exactly
\* those columns to category.
C19_LearnsZeroOneIncludingAllMissing ==
  (op = "fit" /\ self.kind = "FloatToCategoryTransformer") =>
    /\ ret.exc = "none"
    /\ Range(self.learned.float_cols_to_convert_) = ZeroOneColumns(X0)
    /\ ConvertsExactly(TransformResult(self, X0), X0, ZeroOneColumns(X0))

\* C19 amended: FloatToCategoryTransformer.fit learns exactly the float
\* columns that hold at least one non-missing value and whose non-missing
\* values are a subset of {0.0, 1.0} (only 0.0 and only 1.0 included, all
\* missing excluded), and transform converts exactly those columns to
\* category and no other column.
C19_LearnsZeroOneWithPresentValue ==
  (op = "fit" /\ self.kind = "FloatToCategoryTransformer") =>
    LET learned == {c \in ZeroOneColumns(X0) : ~AllMissing(X0, c)}
    IN  /\ ret.exc = "none"
        /\ Range(self.learned.float_cols_to_convert_) = learned
        /\ ConvertsExactly(TransformResult(self, X0), X0, learned)
        /\ \A T \in PipeTables :
             learned \subseteq ColNameSet(T) =>
               ConvertsExactly(TransformResult(self, T), T, learned)

\* fit on a table with a float column that is all missing next to another
\* column: the all-missing column is not learned
C19_Witness ==
  /\ op = "fit" /\ self.kind = "FloatToCategoryTransformer"
  /\ ret.exc = "none"
  /\ X0.nrows > 0
  /\ \E c \in ZeroOneColumns(X0) :
       AllMissing(X0, c) /\ c \notin Range(self.learned.float_cols_to_convert_)

\* ---- C20 ----

\* distinct non-missing values of column c of df
UniqueCount(df, c) ==
  Cardinality({GetCol(df, c).vals[k] : k \in 1..df.nrows} \ {NA})

\* unique_count / row_count < threshold_ratio, over all rows
RatioBelow(df, c) ==
  UniqueCount(df, c) * self.cfg.rd < self.cfg.rn * df.nrows

RatioEqual(df, c) ==
  UniqueCount(df, c) * self.cfg.rd = self.cfg.rn * df.nrows

FewUnique(df, c) == UniqueCount(df, c) <= self.cfg.max_unique

LackedBy(df) == Range(self.cfg.columns_to_drop) \ ColNameSet(df)

\* every transform on inst raises and returns no table
TransformAlwaysRaises(inst) ==
  \A T \in PipeTables :
    TransformResult(inst, T).exc # "none" /\ TransformResult(inst, T).ref = 0

\* every transform on inst returns the table without the columns in names
TransformAlwaysDrops(inst, names) ==
  \A T \in PipeTables :
    /\ TransformResult(inst, T).exc = "none"
    /\ TransformResult(inst, T).table.cols =
         SelectSeq(T.cols, LAMBDA c : c.name \notin names)

\* C21: a ColumnDropper.fit call on a table that lacks a configured column
\* raises ValueError and leaves the learned drop-list as it was before the
\* call; with no fit before it every following transform raises and returns
\* no table, and directly after a successful fit every following transform
\* still drops the list learned by that fit.
C21_StrictDropperHalts ==
  [][(self.kind = "ColumnDropper" /\ op' = "fit" /\ LackedBy(X0') # {}) =>
       /\ ret'.exc = "ValueError"
       /\ ret'.ref = 0
       /\ self' = self
       /\ nfit = 0 => TransformAlwaysRaises(self')
       /\ (op = "fit" /\ ret.exc = "none") =>
            /\ DropList(self') = self.cfg.columns_to_drop
            /\ TransformAlwaysDrops(self', Range(self.cfg.columns_to_drop))]_vars

\* a fit that raised after a fit that succeeded: the learned list is still
\* the configured one
C21_Witness ==
  /\ op = "fit" /\ self.kind = "ColumnDropper"
  /\ ret.exc = "ValueError"
  /\ nfit = 2
  /\ DropList(self) # <<>>
  /\ DropList(self) = self.cfg.columns_to_drop

\* ---- C22 ----

\* the constructor call raised exception exc and produced no instance
Rejected(exc) == ret.exc = exc /\ ret.ref = 0 /\ self = NoInstance

\* the constructor call produced an instance of the called class
Accepted == ret.exc = "none" /\ self # NoInstance /\ self.kind = arg.kind

\* C22: the constructors raise on a configuration error and produce no
\* instance: DropColumnsHighNA for a threshold outside [0, 100],
\* IdentifyAndDropLowVarNum for a negative quasi_constant_threshold,
\* MissingValueImputer for a numeric strategy other than mean, median or
\* mode, ColumnDropper for an argument that is not a list or holds a
\* non-string; every other configuration, the boundaries 0 and 100
\* included, is accepted.
C22_ConfigurationErrorsAtConstruction ==
  op = "init" =>
    /\ Rejected(ret.exc) \/ Accepted
    /\ arg.kind = "DropColumnsHighNA" =>
         IF arg.args[1] < 0 \/ arg.args[1] > 100
         THEN Rejected("ValueError")
         ELSE Accepted /\ self.cfg.threshold = arg.args[1]
    /\ arg.kind = "IdentifyAndDropLowVarNum" =>
         IF arg.args[1] < 0
         THEN Rejected("ValueError")
         ELSE Accepted /\ self.cfg.qn = arg.args[1]
    /\ arg.kind = "MissingValueImputer" =>
         IF arg.args[1] \notin {"mean", "median", "mode"}
         THEN Rejected("ValueError")
         ELSE Accepted /\ self.cfg.num_strategy = arg.args[1]
    /\ arg.kind = "ColumnDropper" =>
         IF ~arg.args[1] \/ \E k \in 1..Len(arg.args[2]) : arg.args[2][k].t # "str"
         THEN Rejected("TypeError")
         ELSE Accepted /\ Len(self.cfg.columns_to_drop) = Len(arg.args[2])
    /\ arg.kind \notin {"DropColumnsHighNA", "IdentifyAndDropLowVarNum",
                        "MissingValueImputer", "ColumnDropper"} => Accepted

\* the threshold 101 is rejected by DropColumnsHighNA
C22_Witness ==
  /\ op = "init"
  /\ arg.kind = "DropColumnsHighNA"
  /\ arg.args[1] = 101
  /\ Rejected("ValueError")

\* ---- C23 ----

\* both fit calls have returned
BothReturned ==
  Len(running.run) = 2 /\ \A i \in 1..2 : running.run[i].pc = "done"

\* the drop-lists fit on T alone can leave on a new instance
AloneLists(T) ==
  {DropList(o.self) : o \in FitOutcomes(Fresh(self), <<T>>)}

\* C23: two fit calls on one IdentifyAndDropLowVarNum instance that do not
\* overlap both return and leave a drop-list of the later fit alone; when
\* they interleave, a final drop-list that is the drop-list of neither fit
\* alone is reachable (the witness).
C23_SequentialFitsKeepLaterList ==
  (BothReturned /\ ~running.overlap) =>
    /\ ret.exc = "none"
    /\ DropList(self) \in AloneLists(running.run[running.last].T)

\* both calls returned after interleaving and the final drop-list holds the
\* columns of both fits, so it is the drop-list of neither fit alone
C23_Witness ==
  /\ BothReturned
  /\ running.overlap
  /\ ret.exc = "none"
  /\ \A i \in 1..2 :
       \A q \in AloneLists(running.run[i].T) :
         /\ Range(q) # Range(DropList(self))
         /\ Range(q) # {}
         /\ Range(q) \subseteq Range(DropList(self))

\* ---- C24 ----

\* the position of the column named c among the numeric columns of df
NumericPosition(df, c) ==
  CHOOSE k \in 1..Len(NumericOnly(df)) : NumericOnly(df)[k].name = c

\* pair <<i1, j1>> is examined before pair <<i2, j2>>
ExaminedBefore(i1, j1, i2, j2) == i1 < i2 \/ (i1 = i2 /\ j1 < j2)

\* C24: for n numeric columns the scan visits exactly the n(n-1)/2 index
\* pairs with j < i, each once, by increasing i and then increasing j;
\* every reported triple names two numeric columns, the later one first,
\* with their correlation, and the entries of a band's list are in the
\* order of the scan.
C24_LowerTriangleRowMajor ==
  op = "analyze" =>
    LET n     == Len(NumericOnly(X0))
        pairs == ScanPairs(n)
    IN  /\ Len(pairs) * 2 = n * (n - 1)
        /\ Range(pairs) = {<<i, j>> : i \in 1..n, j \in 1..n} \ 
                            {<<i, j>> \in (1..n) \X (1..n) : j >= i}
        /\ \A k, m \in 1..Len(pairs) :
             k < m => ExaminedBefore(pairs[k][1], pairs[k][2],
                                     pairs[m][1], pairs[m][2])
        /\ \A k \in 1..Len(ret.report) :
             LET list == ret.report[k].pairs
             IN  /\ \A m \in 1..Len(list) :
                      /\ list[m].a \in NumericNames(X0)
                      /\ list[m].b \in NumericNames(X0)
                      /\ NumericPosition(X0, list[m].b)
                           < NumericPosition(X0, list[m].a)
                      /\ list[m].r = CorrOf(X0, list[m].a, list[m].b)
                 /\ \A m1, m2 \in 1..Len(list) :
                      m1 < m2 =>
                        ExaminedBefore(NumericPosition(X0, list[m1].a),
                                       NumericPosition(X0, list[m1].b),
                                       NumericPosition(X0, list[m2].a),
                                       NumericPosition(X0, list[m2].b))

\* three numeric columns whose three pairs all fall into one band
C24_Witness ==
  /\ op = "analyze"
  /\ Len(NumericOnly(X0)) = 3
  /\ \E k \in 1..Len(ret.report) : Len(ret.report[k].pairs) = 3

\* ---- C25 ----

\* no entry of df is missing
NoMissingEntry(df) ==
  \A k \in 1..Len(df.cols) : \A i \in 1..df.nrows : ~IsNull(df.cols[k].vals[i])

\* C25: for every table T and every accepted configuration,
\* MissingValueImputer.fit(T) followed by transform(T) returns a table
\* without a missing entry in any column, also when a column of T is
\* missing on every row.
C25_FitTransformLeavesNoMissing ==
  (op = "fit" /\ self.kind = "MissingValueImputer") =>
    /\ ret.exc = "none"
    /\ TransformResult(self, X0).exc = "none"
    /\ NoMissingEntry(TransformResult(self, X0).table)

\* ---- C26 ----

\* the lists of the report under the bands named in levels
ListsOf(report, levels) ==
  {report[k].pairs : k \in {m \in 1..Len(report) : report[m].level \in levels}}

\* r lies in the interval of the band named level of the default table
InDefaultInterval(level, r) ==
  \E k \in 1..10 :
    /\ k \in DOMAIN ret.report
    /\ ret.report[k].level = level
    /\ LET lo == IF level = "perfect_positive" THEN 999999 ELSE -1000001
           hi == IF level = "perfect_positive" THEN 1000001 ELSE -999999
       IN  CorrGeq(r, lo) /\ CorrLt(r, hi)

\* C26: with the default table (thresholds=None) the lists of
\* perfect_positive and perfect_negative are empty for every table: a pair
\* whose correlation lies in one of their intervals is listed under a band
\* that comes earlier in the table.
C26_PerfectBandsStayEmpty ==
  (op = "analyze" /\ arg = NoneArg) =>
    /\ Len(ret.report) = 10
    /\ ret.report[9].level = "perfect_positive"
    /\ ret.report[10].level = "perfect_negative"
    /\ ListsOf(ret.report, {"perfect_positive", "perfect_negative"}) = {<<>>}
    /\ \A a, b \in NumericNames(X0) :
         (a # b /\ (\/ InDefaultInterval("perfect_positive", CorrOf(X0, a, b))
                    \/ InDefaultInterval("perfect_negative", CorrOf(X0, a, b)))) =>
           \E k \in 1..8 : Occurrences(ret.report, k, {a, b}) = 1

\* a table with a pair of correlation -1 analysed with the default table:
\* the pair is listed, and not under perfect_negative
C26_Witness ==
  /\ op = "analyze"
  /\ arg = NoneArg
  /\ \E a, b \in NumericNames(X0) :
       /\ a # b
       /\ InDefaultInterval("perfect_negative", CorrOf(X0, a, b))
       /\ \E k \in 1..8 : Occurrences(ret.report, k, {a, b}) = 1

\* ---- C27 ----

\* the names of the columns of df that the imputer treats as numeric
ImputerNumeric(df) == {c \in ColNameSet(df) : IsNumber(GetCol(df, c))}

\* C27: after any sequence of fit calls on one MissingValueImputer the keys
\* of the numeric fill map are exactly the numeric columns, and the keys of
\* the categorical fill map exactly the other columns, of the table fitted
\* last.
C27_FillMapKeysFollowLastFit ==
  (op = "fit" /\ self.kind = "MissingValueImputer") =>
    /\ ret.exc = "none"
    /\ DictKeys(self.learned.num_imputers_) = ImputerNumeric(X0)
    /\ DictKeys(self.learned.cat_imputers_) = ColNameSet(X0) \ ImputerNumeric(X0)

\* ---- C28 ----

\* column c of df is numeric and has a value on some row
NumericWithValue(df, c) ==
  /\ c \in ColNameSet(df)
  /\ GetCol(df, c).dtype \in {"int64", "float64"}
  /\ \E i \in 1..df.nrows : GetCol(df, c).vals[i] # NA

\* the fit returned early because no numeric column has a value
NothingToScale(df) ==
  /\ \E c \in ColNameSet(df) : GetCol(df, c).dtype \in {"int64", "float64"}
  /\ \A c \in ColNameSet(df) : ~NumericWithValue(df, c)

\* C28: after every fit of IdentifyAndDropLowVarNum the drop-list has no
\* duplicate and holds only numeric columns of the fit table that have a
\* non-missing value; when no numeric column has one (the early return) the
\* list is empty.
C28_DropListNumericWithValues ==
  (op = "fit" /\ self.kind = "IdentifyAndDropLowVarNum") =>
    LET list == self.learned.columns_to_drop_
    IN  /\ ret.exc = "none"
        /\ Cardinality(Range(list)) = Len(list)
        /\ \A k \in 1..Len(list) : NumericWithValue(X0, list[k])
        /\ NothingToScale(X0) => list = <<>>

\* a fit on a table with a numeric column missing on every row next to a
\* numeric column that is dropped
C28_Witness ==
  /\ op = "fit" /\ self.kind = "IdentifyAndDropLowVarNum"
  /\ X0.nrows > 0
  /\ self.learned.columns_to_drop_ # <<>>
  /\ \E c \in ColNameSet(X0) :
       /\ GetCol(X0, c).dtype = "float64"
       /\ AllMissing(X0, c)
       /\ c \notin Range(self.learned.columns_to_drop_)

\* ---- C29 ----

FitSucceeded ==
  /\ nfit > 0
  /\ self.kind = "ColumnDropper" =>
       self.learned._fitted_columns_to_drop = self.cfg.columns_to_drop

\* C30: for DropColumnsHighNA, IdentifyAndDropLowVarNum and ColumnDropper
\* after a successful fit, get_feature_names_out called with the column
\* list of a table T returns the column list of transform(T), in the same
\* order, whether or not T holds the learned drop-list columns.
C30_NamesOutMatchesTransform ==
  (op = "names" /\ self.kind \in DropKinds /\ FitSucceeded) =>
    /\ ret.exc = "none"
    /\ ~ret.none
    /\ TransformResult(self, X0).exc = "none"
    /\ ret.names = ColNames(TransformResult(self, X0).table)

\* the names asked for a table that holds one learned column and lacks
\* another
C30_Witness ==
  /\ op = "names" /\ self.kind \in DropKinds /\ FitSucceeded
  /\ ret.exc = "none"
  /\ \E c \in Range(DropList(self)) : HasCol(X0, c)
  /\ \E c \in Range(DropList(self)) : ~HasCol(X0, c)
  /\ Len(ret.names) < Len(X0.cols)
====
